---- MODULE Spec2Model ----
(***************************************************************************)
(* A model of the combinators of trafaret (src/trafaret/__init__.py): Or,  *)
(* List, Tuple and Dict with its Key descriptors, over the leaf trafarets  *)
(* Int, String and Null.                                                   *)
(*                                                                         *)
(* Python values are modelled by tokens: "i1" and "i2" are the ints 1 and  *)
(* 2, "s1", "sx" and "sx1" the strings '1', 'x' and 'x1', "none" is None.  *)
(* A Python list is a sequence (position p of the sequence is the Python   *)
(* index p - 1), a Python dict is a function whose domain is its key set.  *)
(* A call of check is a run of steps: the variable pc is the position in   *)
(* check_and_return, calls is the log of the child trafarets it invoked.   *)
(***************************************************************************)
EXTENDS Integers, Sequences, FiniteSets, TLC

VARIABLES pc, value, idx, calls, outcome,
          trafarets, trafaret, min_length, max_length,
          lst, errors,
          keys, extras, allow_any, ignore, ignore_any, data, collect,
          self, history, stack, threads

vars == <<pc, value, idx, calls, outcome, trafarets, trafaret, min_length,
          max_length, lst, errors, keys, extras, allow_any, ignore,
          ignore_any, data, collect, self, history, stack, threads>>

callVars == <<pc, value, idx, calls, outcome, lst, errors, data, collect>>
orVars == <<trafarets>>
listVars == <<trafaret, min_length, max_length>>
dictVars == <<keys, extras, allow_any, ignore, ignore_any>>
restVars == <<self, history, stack, threads>>

\* ---------------------------------------------------------------- bounds
MaxBranches == 3
MaxLen == 3
MaxArity == 3
MaxOps == 3
MaxDepth == 4
MaxConverters == 3

\* ---------------------------------------------------------------- values
Ints == {"i1", "i2"}
Strs == {"s1", "sx", "sx1"}
Scalars == {"i1", "s1", "sx", "none"}
Leaves == {"Int", "String", "Null"}

\* isinstance(v, int), isinstance(v, str_types)
IsInt(v) == v \in Ints
IsStr(v) == v \in Strs

\* max_length = None
NoMaxLength == -1

\* '%s' % v
Fmt(v) ==
  CASE v = "i1" -> "1"
    [] v = "i2" -> "2"
    [] v = "s1" -> "1"
    [] v = "sx" -> "x"
    [] v = "sx1" -> "x1"
    [] OTHER -> "None"

\* The sequences over S of length at most n.
SeqUpTo(S, n) == UNION {[1..k -> S] : k \in 0..n}

\* The items of a Python list or the values of a dict.
Range(f) == {f[x] : x \in DOMAIN f}

\* ---------------------------------------------------------------- errors
NoError == [kind |-> "none", msg |-> "", map |-> <<>>]

\* DataError(error=<message>)
DataError(error) == [kind |-> "msg", msg |-> error, map |-> <<>>]

\* DataError(error=<dict>)
DataErrors(error) == [kind |-> "map", msg |-> "", map |-> error]

\* The result of a call: a returned value or a raised DataError.
NoValue == "NoValue"
Returned(v) == [status |-> "returned", val |-> v, err |-> NoError]
Raised(e) == [status |-> "raised", val |-> NoValue, err |-> e]
NoOutcome == [status |-> "none", val |-> NoValue, err |-> NoError]

\* An exception that is no DataError (AttributeError, RuntimeError, ...)
\* leaves the call: no handler of the module catches it.
Exception(name) == [kind |-> "exception", msg |-> name, map |-> <<>>]
Crashed(name) == [status |-> "crashed", val |-> NoValue, err |-> Exception(name)]

\* ---------------------------------------------------------------- leaves
\* Trafaret.converter: the identity unless a subclass overrides it.
converter(v) == v

\* Trafaret._convert with no converters appended: [self.converter].
Convert(v) == converter(v)

\* int(val) for a str: the int it spells, or ValueError.
IntOfStr(val) == IF val = "s1" THEN "i1" ELSE "ValueError"

\* Float._converter with value_type = int (Int._converter adds nothing for
\* a value that is not a float).
IntConverter(val) ==
  IF ~(IsStr(val) \/ IsInt(val))
  THEN Raised(DataError("value " \o Fmt(val) \o " is not int"))
  ELSE IF IsInt(val) THEN Returned(val)
  ELSE IF IntOfStr(val) = "ValueError"
  THEN Raised(DataError("value " \o Fmt(val) \o " can't be converted to int"))
  ELSE Returned(IntOfStr(val))

\* Float.check_and_return for Int() (no gte, lte, gt, lt).
IntCheckAndReturn(val) ==
  IF ~IsInt(val) THEN IntConverter(val) ELSE Returned(val)

\* String.check_and_return for String() (no blank token, no regex, no
\* length bounds).
StringCheckAndReturn(val) ==
  IF ~IsStr(val) THEN Raised(DataError("value is not a string"))
  ELSE Returned(val)

\* Null.check_value
NullCheckValue(val) ==
  IF val # "none" THEN Raised(DataError("value should be None"))
  ELSE Returned(val)

\* Trafaret.check of a leaf: check_value, then _convert(value); or
\* _convert(check_and_return(value)).
TrafaretCheck(t, val) ==
  LET r == CASE t = "Int" -> IntCheckAndReturn(val)
             [] t = "String" -> StringCheckAndReturn(val)
             [] OTHER -> NullCheckValue(val)
  IN IF r.status = "raised" THEN r
     ELSE IF t = "Null" THEN Returned(Convert(val))
     ELSE Returned(Convert(r.val))

\* ---------------------------------------------------------------- Or
\* Enumerate counting from 1.
EnumerateFromOne(es) == [i \in 1..Len(es) |-> es[i]]

\* dict(enumerate(errors)): the items of a list keyed by 0-based index.
Enumerate(es) == [i \in 0..(Len(es) - 1) |-> es[i + 1]]

InitCall ==
  /\ pc = "idle"
  /\ value = [kind |-> "scalar", v |-> "none"]
  /\ idx = 0
  /\ calls = <<>>
  /\ outcome = NoOutcome
  /\ lst = <<>>
  /\ errors = <<>>
  /\ data = <<>>
  /\ collect = <<>>

\* Between calls: the locals and the result of the last call are gone.
Forget ==
  /\ pc' = "idle"
  /\ value' = [kind |-> "scalar", v |-> "none"]
  /\ idx' = 0
  /\ calls' = <<>>
  /\ outcome' = NoOutcome
  /\ lst' = <<>>
  /\ errors' = <<>>
  /\ data' = <<>>
  /\ collect' = <<>>

\* The caller has the result of check; the trafaret is idle again.
Release ==
  /\ pc = "done"
  /\ Forget
  /\ UNCHANGED <<orVars, listVars, dictVars, restVars>>

InitOrOff == trafarets = <<>>
InitSelfOff == self = <<>>
InitRestOff == history = <<>> /\ stack = <<>> /\ threads = <<>>
InitListOff == trafaret = "Null" /\ min_length = 0 /\ max_length = 0
InitDictOff ==
  /\ keys = <<>>
  /\ extras = <<>>
  /\ allow_any = FALSE
  /\ ignore = <<>>
  /\ ignore_any = FALSE

\* Or.__init__
InitOr ==
  /\ InitCall
  /\ trafarets \in SeqUpTo(Leaves, MaxBranches)
  /\ InitListOff
  /\ InitDictOff
  /\ InitSelfOff
  /\ InitRestOff

\* Or.__lshift__ (and Or.__or__): one more branch, at the end.
OrLshift ==
  /\ pc = "idle"
  /\ Len(trafarets) < MaxBranches
  /\ \E t \in Leaves : trafarets' = Append(trafarets, t)
  /\ Forget
  /\ UNCHANGED <<listVars, dictVars, restVars>>

\* Or.check(value) is entered: errors = [].
OrCall ==
  /\ pc = "idle"
  /\ \E v \in Scalars : value' = [kind |-> "scalar", v |-> v]
  /\ pc' = "loop"
  /\ idx' = 0
  /\ calls' = <<>>
  /\ errors' = <<>>
  /\ outcome' = NoOutcome
  /\ UNCHANGED <<lst, data, collect>>
  /\ UNCHANGED <<orVars, listVars, dictVars, restVars>>

\* OrBranch without its return: a success is kept and the loop goes on.
OrBranchNoStop ==
  /\ pc = "loop"
  /\ idx < Len(trafarets)
  /\ LET r == TrafaretCheck(trafarets[idx + 1], value.v)
     IN /\ calls' = Append(calls, <<trafarets[idx + 1], value.v>>)
        /\ idx' = idx + 1
        /\ \/ /\ r.status = "returned"
              /\ outcome' = Returned(Convert(r.val))
              /\ pc' = IF idx + 1 = Len(trafarets) THEN "done" ELSE "loop"
              /\ errors' = errors
           \/ /\ r.status = "raised"
              /\ errors' = Append(errors, r.err)
              /\ UNCHANGED <<pc, outcome>>
  /\ UNCHANGED <<value, lst, data, collect>>
  /\ UNCHANGED <<orVars, listVars, dictVars, restVars>>

\* One turn of the loop of Or.check_and_return: the next branch is tried;
\* its value is returned (through Trafaret.check's _convert) or its error
\* is appended.
OrBranch ==
  /\ pc = "loop"
  /\ idx < Len(trafarets)
  /\ LET r == TrafaretCheck(trafarets[idx + 1], value.v)
     IN /\ calls' = Append(calls, <<trafarets[idx + 1], value.v>>)
        /\ \/ /\ r.status = "returned"
              /\ outcome' = Returned(Convert(r.val))
              /\ pc' = "done"
              /\ UNCHANGED <<idx, errors>>
           \/ /\ r.status = "raised"
              /\ errors' = Append(errors, r.err)
              /\ idx' = idx + 1
              /\ UNCHANGED <<pc, outcome>>
  /\ UNCHANGED <<value, lst, data, collect>>
  /\ UNCHANGED <<orVars, listVars, dictVars, restVars>>

\* Every branch failed: raise DataError(dict(enumerate(errors))).
OrRaise ==
  /\ pc = "loop"
  /\ idx = Len(trafarets)
  /\ outcome' = Raised(DataErrors(Enumerate(errors)))
  /\ pc' = "done"
  /\ UNCHANGED <<value, idx, calls, lst, errors, data, collect>>
  /\ UNCHANGED <<orVars, listVars, dictVars, restVars>>

NextOr == OrLshift \/ OrCall \/ OrBranch \/ OrRaise \/ Release

SpecOr == InitOr /\ [][NextOr]_vars

\* ---------------------------------------------------------------- List
\* List.__init__
InitList ==
  /\ InitCall
  /\ InitOrOff
  /\ trafaret \in Leaves
  /\ min_length \in 0..MaxLen
  /\ max_length \in {NoMaxLength} \cup 0..MaxLen
  /\ InitDictOff
  /\ InitSelfOff
  /\ InitRestOff

\* The fail-fast checks of List.check_and_return without the max_length one.
ListPrecheckNoMax(v) ==
  IF v.kind # "list" THEN DataError("value is not list")
  ELSE IF Len(v.v) < min_length
  THEN DataError("list length is less than " \o ToString(min_length))
  ELSE NoError

\* The fail-fast checks of List.check_and_return: the error they raise, or
\* NoError when the value passes them.
ListPrecheck(v) ==
  IF v.kind # "list" THEN DataError("value is not list")
  ELSE IF Len(v.v) < min_length
  THEN DataError("list length is less than " \o ToString(min_length))
  ELSE IF max_length # NoMaxLength /\ Len(v.v) > max_length
  THEN DataError("list length is greater than " \o ToString(max_length))
  ELSE NoError

\* The start of a call of check on v, shared by List and Tuple: pre is the
\* error of the fail-fast checks.
Enter(v, pre) ==
  /\ pc = "idle"
  /\ value' = v
  /\ idx' = 0
  /\ calls' = <<>>
  /\ lst' = <<>>
  /\ errors' = <<>>
  /\ IF pre # NoError
     THEN pc' = "done" /\ outcome' = Raised(pre)
     ELSE pc' = "items" /\ outcome' = NoOutcome
  /\ UNCHANGED <<data, collect>>
  /\ UNCHANGED <<orVars, listVars, dictVars, restVars>>

\* List.check(value) is entered with a list, or with a value that is none.
ListCall ==
  \/ \E v \in SeqUpTo(Scalars, MaxLen) :
       Enter([kind |-> "list", v |-> v],
             ListPrecheck([kind |-> "list", v |-> v]))
  \/ \E v \in Scalars :
       Enter([kind |-> "scalar", v |-> v],
             ListPrecheck([kind |-> "scalar", v |-> v]))

\* ListItem giving up at the first element that fails.
ListItemShortCircuit ==
  /\ pc = "items"
  /\ idx < Len(value.v)
  /\ LET r == TrafaretCheck(trafaret, value.v[idx + 1])
     IN /\ calls' = Append(calls, <<trafaret, value.v[idx + 1]>>)
        /\ idx' = idx + 1
        /\ \/ /\ r.status = "returned"
              /\ lst' = Append(lst, r.val)
              /\ UNCHANGED <<errors, pc, outcome>>
           \/ /\ r.status = "raised"
              /\ errors' = (idx :> r.err) @@ errors
              /\ outcome' = Raised(DataErrors((idx :> r.err) @@ errors))
              /\ pc' = "done"
              /\ lst' = lst
  /\ UNCHANGED <<value, data, collect>>
  /\ UNCHANGED <<orVars, listVars, dictVars, restVars>>

\* One turn of the loop of List.check_and_return: the element at index idx
\* is checked; its value is appended to lst or its error is put in errors
\* under the index.
ListItem ==
  /\ pc = "items"
  /\ idx < Len(value.v)
  /\ LET r == TrafaretCheck(trafaret, value.v[idx + 1])
     IN /\ calls' = Append(calls, <<trafaret, value.v[idx + 1]>>)
        /\ idx' = idx + 1
        /\ \/ /\ r.status = "returned"
              /\ lst' = Append(lst, r.val)
              /\ errors' = errors
           \/ /\ r.status = "raised"
              /\ errors' = (idx :> r.err) @@ errors
              /\ lst' = lst
  /\ UNCHANGED <<pc, value, outcome, data, collect>>
  /\ UNCHANGED <<orVars, listVars, dictVars, restVars>>

\* The end of List.check_and_return: raise DataError(error=errors) if any
\* element failed, else return lst (through Trafaret.check's _convert).
ListReturn ==
  /\ pc = "items"
  /\ idx = Len(value.v)
  /\ outcome' = IF DOMAIN errors # {} THEN Raised(DataErrors(errors))
                ELSE Returned(Convert(lst))
  /\ pc' = "done"
  /\ UNCHANGED <<value, idx, calls, lst, errors, data, collect>>
  /\ UNCHANGED <<orVars, listVars, dictVars, restVars>>

NextList == ListCall \/ ListItem \/ ListReturn \/ Release

SpecList == InitList /\ [][NextList]_vars

\* ---------------------------------------------------------------- Tuple
\* Tuple.length, set by Tuple.__init__ to len(self.trafarets).
length == Len(trafarets)

\* The characters of a str.
Chars(s) ==
  CASE s = "sx1" -> <<"sx", "s1">>
    [] OTHER -> <<s>>

\* tuple(value): the items of a list, the characters of a str; an int and
\* None are not iterable (TypeError).
TupleOf(v) ==
  IF v.kind = "list" THEN [ok |-> TRUE, items |-> v.v]
  ELSE IF IsStr(v.v) THEN [ok |-> TRUE, items |-> Chars(v.v)]
  ELSE [ok |-> FALSE, items |-> <<>>]

\* The fail-fast checks of Tuple.check_and_return with < for !=.
TuplePrecheckShorter(v) ==
  IF ~TupleOf(v).ok THEN DataError("value must be convertable to tuple")
  ELSE IF Len(TupleOf(v).items) < length
  THEN DataError("value must contain exact " \o ToString(length) \o " items")
  ELSE NoError

\* The fail-fast checks of Tuple.check_and_return: the error they raise, or
\* NoError when the value passes them.
TuplePrecheck(v) ==
  IF ~TupleOf(v).ok THEN DataError("value must be convertable to tuple")
  ELSE IF Len(TupleOf(v).items) # length
  THEN DataError("value must contain exact " \o ToString(length) \o " items")
  ELSE NoError

\* Tuple.__init__
InitTuple ==
  /\ InitCall
  /\ trafarets \in SeqUpTo(Leaves, MaxArity)
  /\ InitListOff
  /\ InitDictOff
  /\ InitSelfOff
  /\ InitRestOff

\* Tuple.check(value) is entered with a list, or with a str, an int or None.
TupleCall ==
  \/ \E v \in SeqUpTo(Scalars, MaxLen) :
       Enter([kind |-> "list", v |-> v],
             TuplePrecheck([kind |-> "list", v |-> v]))
  \/ \E v \in {"sx", "sx1", "i1", "none"} :
       Enter([kind |-> "scalar", v |-> v],
             TuplePrecheck([kind |-> "scalar", v |-> v]))

\* zip(value, self.trafarets): the pairs up to the shorter of the two.
Zip(a, b) ==
  [i \in 1..(IF Len(a) < Len(b) THEN Len(a) ELSE Len(b)) |-> <<a[i], b[i]>>]

\* One turn of the loop of Tuple.check_and_return: the item at index idx is
\* checked by the trafaret of its position (lst is the local result).
TupleItem ==
  /\ pc = "items"
  /\ idx < Len(Zip(TupleOf(value).items, trafarets))
  /\ LET pair == Zip(TupleOf(value).items, trafarets)[idx + 1]
         r == TrafaretCheck(pair[2], pair[1])
     IN /\ calls' = Append(calls, <<pair[2], pair[1]>>)
        /\ idx' = idx + 1
        /\ \/ /\ r.status = "returned"
              /\ lst' = Append(lst, r.val)
              /\ errors' = errors
           \/ /\ r.status = "raised"
              /\ errors' = (idx :> r.err) @@ errors
              /\ lst' = lst
  /\ UNCHANGED <<pc, value, outcome, data, collect>>
  /\ UNCHANGED <<orVars, listVars, dictVars, restVars>>

\* The end of Tuple.check_and_return: self._failure(errors) if any item
\* failed, else return tuple(result).
TupleReturn ==
  /\ pc = "items"
  /\ idx = Len(Zip(TupleOf(value).items, trafarets))
  /\ outcome' = IF DOMAIN errors # {} THEN Raised(DataErrors(errors))
                ELSE Returned(Convert(lst))
  /\ pc' = "done"
  /\ UNCHANGED <<value, idx, calls, lst, errors, data, collect>>
  /\ UNCHANGED <<orVars, listVars, dictVars, restVars>>

NextTuple == TupleCall \/ TupleItem \/ TupleReturn \/ Release

SpecTuple == InitTuple /\ [][NextTuple]_vars

\* ---------------------------------------------------------------- Key
Names == {"foo", "bar", "baz"}

\* to_name = None
None == "None"

\* default = _empty, a literal default, a callable default: v is the
\* literal, or what the callable returns.
Empty == [kind |-> "empty", v |-> "_empty"]
Literal(v) == [kind |-> "value", v |-> v]
Callable(v) == [kind |-> "callable", v |-> v]

\* Key.__init__ (Dict.__init__ sets the trafaret through set_trafaret).
Key(name, default, optional, to_name, t) ==
  [name |-> name, to_name |-> to_name, default |-> default,
   optional |-> optional, trafaret |-> t]

\* Key.get_name ignoring to_name.
GetSourceName(key) == key.name

\* Key.get_name: self.to_name or self.name
GetName(key) == IF key.to_name # None THEN key.to_name ELSE key.name

\* The default Key.pop passes to data.pop: self.default() when the default
\* is callable, else self.default (the _empty marker when there is none).
DefaultOf(key) == key.default.v

\* if callable(self.default): default = self.default() -- the invocations
\* of the callable default one Key.pop makes past its first test, each with
\* the name of the descriptor and what the callable returned.
Invoke(key) ==
  IF key.default.kind = "callable"
  THEN << [name |-> key.name, result |-> key.default.v] >>
  ELSE <<>>

\* Plain functions given where a trafaret is expected (Trafaret._trafaret
\* lets every routine through): one returns twice its argument (a term over
\* the argument), one raises DataError.
Routines == {"double", "reject"}

\* f(v) for a plain function f.
RoutineCall(f, v) ==
  IF f = "reject" THEN Raised(DataError("rejected"))
  ELSE Returned(f \o "(" \o v \o ")")

\* child.check(v): a trafaret checks; a function has no attribute check
\* (AttributeError).
Check(child, v) ==
  IF child \in Routines THEN Crashed("AttributeError")
  ELSE TrafaretCheck(child, v)

\* catch_error(checker, value): checker.check(value) if the checker has a
\* check, else checker(value); a DataError raised is returned in place of
\* the value.
CatchError(checker, v) ==
  IF checker \in Routines THEN RoutineCall(checker, v)
  ELSE TrafaretCheck(checker, v)

\* d.pop(name, default): the value taken, and the dict without the name.
Pop(d, name, default) ==
  [val |-> IF name \in DOMAIN d THEN d[name] ELSE default,
   data |-> [n \in DOMAIN d \ {name} |-> d[n]]]

\* Key.pop with the test of optional inverted.
KeyPopOptionalInverted(key, d) ==
  IF key.name \in DOMAIN d \/ key.default # Empty
  THEN LET p == Pop(d, key.name, DefaultOf(key))
       IN [yields |-> << <<GetName(key), CatchError(key.trafaret, p.val)>> >>,
           data |-> p.data,
           calls |-> << <<key.trafaret, p.val>> >>,
           invoked |-> Invoke(key)]
  ELSE IF key.optional
  THEN [yields |-> << <<key.name, Raised(DataError("is required"))>> >>,
        data |-> d, calls |-> <<>>, invoked |-> <<>>]
  ELSE [yields |-> <<>>, data |-> d, calls |-> <<>>, invoked |-> <<>>]

\* Key.pop invoking a callable default only when the name is not in data.
KeyPopLazyDefault(key, d) ==
  IF key.name \in DOMAIN d \/ key.default # Empty
  THEN LET p == Pop(d, key.name, DefaultOf(key))
       IN [yields |-> << <<GetName(key), CatchError(key.trafaret, p.val)>> >>,
           data |-> p.data,
           calls |-> << <<key.trafaret, p.val>> >>,
           invoked |-> IF key.name \in DOMAIN d THEN <<>> ELSE Invoke(key)]
  ELSE IF ~key.optional
  THEN [yields |-> << <<key.name, Raised(DataError("is required"))>> >>,
        data |-> d, calls |-> <<>>, invoked |-> <<>>]
  ELSE [yields |-> <<>>, data |-> d, calls |-> <<>>, invoked |-> <<>>]

\* Key.pop(data): the pairs (name, value or DataError) the generator
\* yields, the working copy after it, the trafaret invocations made and
\* the invocations of the callable default made.
\* (raise StopIteration ends the generator, as the doctests of Key expect.)
KeyPop(key, d) ==
  IF key.name \in DOMAIN d \/ key.default # Empty
  THEN LET p == Pop(d, key.name, DefaultOf(key))
       IN [yields |-> << <<GetName(key), CatchError(key.trafaret, p.val)>> >>,
           data |-> p.data,
           calls |-> << <<key.trafaret, p.val>> >>,
           invoked |-> Invoke(key)]
  ELSE IF ~key.optional
  THEN [yields |-> << <<key.name, Raised(DataError("is required"))>> >>,
        data |-> d, calls |-> <<>>, invoked |-> <<>>]
  ELSE [yields |-> <<>>, data |-> d, calls |-> <<>>, invoked |-> <<>>]

\* ---------------------------------------------------------------- Dict
\* The descriptors of the modelled schemas: foo is an Int field, optional or
\* not, renamed or not, with or without a default; bar is a required String
\* field, renamed or not.
FooKeys ==
  {Key("foo", d, o, t, "Int") :
     d \in {Empty, Literal("i1"), Callable("sx")},
     o \in BOOLEAN, t \in {None, "baz", "bar"}}
BarKeys ==
  {Key("bar", Empty, FALSE, t, "String") : t \in {None, "baz"}}

\* The values an input dict may hold under each name.
InputValues(n) ==
  CASE n = "foo" -> {"i1", "s1", "sx"}
    [] n = "bar" -> {"sx", "i1"}
    [] OTHER -> {"i2", "sx"}

\* The dicts check is called with.
InputDicts ==
  UNION {{d \in [S -> Scalars \cup Ints \cup Strs] :
            \A n \in S : d[n] \in InputValues(n)} : S \in SUBSET Names}

\* Dict.__init__: no extra-key policy, the keys in declaration order.
InitDict ==
  /\ InitCall
  /\ InitOrOff
  /\ InitListOff
  /\ keys \in {<<>>} \cup {<<f>> : f \in FooKeys} \cup {<<b>> : b \in BarKeys}
              \cup {<<f, b>> : f \in FooKeys, b \in BarKeys}
  /\ extras = <<>>
  /\ allow_any = FALSE
  /\ ignore = <<>>
  /\ ignore_any = FALSE
  /\ InitSelfOff
  /\ InitRestOff

\* Dict.allow_extra(name), for a name not yet allowed.
DictAllowExtra ==
  /\ pc = "idle"
  /\ \/ /\ ~allow_any
        /\ allow_any' = TRUE
        /\ extras' = extras
     \/ /\ \E n \in {"baz"} \ Range(extras) : extras' = Append(extras, n)
        /\ allow_any' = allow_any
  /\ Forget
  /\ UNCHANGED <<keys, ignore, ignore_any>>
  /\ UNCHANGED <<orVars, listVars, restVars>>

\* Dict.ignore_extra(name), for a name not yet ignored.
DictIgnoreExtra ==
  /\ pc = "idle"
  /\ \/ /\ ~ignore_any
        /\ ignore_any' = TRUE
        /\ ignore' = ignore
     \/ /\ \E n \in {"foo", "baz"} \ Range(ignore) : ignore' = Append(ignore, n)
        /\ ignore_any' = ignore_any
  /\ Forget
  /\ UNCHANGED <<keys, extras, allow_any>>
  /\ UNCHANGED <<orVars, listVars, restVars>>

\* Dict.check(value) is entered: a value that is no dict fails at once,
\* else data = copy.copy(value), collect = {}, errors = {}. (history is
\* the log of the invocations of callable defaults in this call.)
DictCall ==
  /\ pc = "idle"
  /\ \/ \E v \in {"i1"} :
          /\ value' = [kind |-> "scalar", v |-> v]
          /\ data' = <<>>
          /\ pc' = "done"
          /\ outcome' =
               Raised(DataError("value '" \o Fmt(v) \o "' is not dict"))
     \/ \E d \in InputDicts :
          /\ value' = [kind |-> "dict", v |-> d]
          /\ data' = d
          /\ pc' = "keys"
          /\ outcome' = NoOutcome
  /\ idx' = 0
  /\ calls' = <<>>
  /\ collect' = <<>>
  /\ errors' = <<>>
  /\ lst' = lst
  /\ history' = <<>>
  /\ UNCHANGED <<orVars, listVars, dictVars, self, stack, threads>>

\* The inner loop of Dict.check_and_return over the pairs one Key.pop
\* yields: a DataError goes to errors, a value to collect.
RECURSIVE StoreYields(_, _, _)
StoreYields(ys, c, e) ==
  IF ys = <<>> THEN [collect |-> c, errors |-> e]
  ELSE LET k == Head(ys)[1]
           v == Head(ys)[2]
       IN IF v.status = "raised"
          THEN StoreYields(Tail(ys), c, (k :> v.err) @@ e)
          ELSE StoreYields(Tail(ys), (k :> v.val) @@ c, e)

\* DictKey raising at the first descriptor that yields an error.
DictKeyShortCircuit ==
  /\ pc = "keys"
  /\ idx < Len(keys)
  /\ LET p == KeyPop(keys[idx + 1], data)
         st == StoreYields(p.yields, collect, errors)
     IN /\ data' = p.data
        /\ calls' = calls \o p.calls
        /\ history' = history \o p.invoked
        /\ collect' = st.collect
        /\ errors' = st.errors
        /\ IF DOMAIN st.errors # {}
           THEN pc' = "done" /\ outcome' = Raised(DataErrors(st.errors))
           ELSE UNCHANGED <<pc, outcome>>
  /\ idx' = idx + 1
  /\ UNCHANGED <<value, lst>>
  /\ UNCHANGED <<orVars, listVars, dictVars, self, stack, threads>>

\* DictKey with data bound to the dict of the caller instead of a copy.
DictKeyNoCopy ==
  /\ pc = "keys"
  /\ idx < Len(keys)
  /\ LET p == KeyPop(keys[idx + 1], data)
         st == StoreYields(p.yields, collect, errors)
     IN /\ data' = p.data
        /\ value' = [value EXCEPT !.v = p.data]
        /\ calls' = calls \o p.calls
        /\ history' = history \o p.invoked
        /\ collect' = st.collect
        /\ errors' = st.errors
  /\ idx' = idx + 1
  /\ UNCHANGED <<pc, outcome, lst>>
  /\ UNCHANGED <<orVars, listVars, dictVars, self, stack, threads>>

\* One turn of the outer loop of Dict.check_and_return: the next Key pops
\* its name from data and what it yields is stored.
DictKey ==
  /\ pc = "keys"
  /\ idx < Len(keys)
  /\ LET p == KeyPop(keys[idx + 1], data)
         st == StoreYields(p.yields, collect, errors)
     IN /\ data' = p.data
        /\ calls' = calls \o p.calls
        /\ history' = history \o p.invoked
        /\ collect' = st.collect
        /\ errors' = st.errors
  /\ idx' = idx + 1
  /\ UNCHANGED <<pc, value, outcome, lst>>
  /\ UNCHANGED <<orVars, listVars, dictVars, self, stack, threads>>

\* Classify with the capture test before the ignore test.
ClassifyCaptureFirst(name) ==
  IF allow_any \/ name \in Range(extras) THEN "capture"
  ELSE IF ignore_any \/ name \in Range(ignore) THEN "ignore"
  ELSE "reject"

\* Classify without the test of allow_any.
ClassifyNoAllowAny(name) ==
  IF ignore_any THEN "ignore"
  ELSE IF name \in Range(ignore) THEN "ignore"
  ELSE IF name \notin Range(extras) THEN "reject"
  ELSE "capture"

\* What the second loop of Dict.check_and_return does with a name left in
\* data: skipped, put in errors, or copied to collect.
Classify(name) ==
  IF ignore_any THEN "ignore"
  ELSE IF name \in Range(ignore) THEN "ignore"
  ELSE IF ~allow_any /\ name \notin Range(extras) THEN "reject"
  ELSE "capture"

\* The second loop of Dict.check_and_return, over the names left in data.
DictExtras ==
  /\ pc = "keys"
  /\ idx = Len(keys)
  /\ LET captured == {n \in DOMAIN data : Classify(n) = "capture"}
         rejected == {n \in DOMAIN data : Classify(n) = "reject"}
     IN /\ collect' = [n \in captured |-> data[n]] @@ collect
        /\ errors' = [n \in rejected |->
                        DataError(n \o " is not allowed key")] @@ errors
  /\ pc' = "return"
  /\ UNCHANGED <<value, idx, calls, outcome, lst, data>>
  /\ UNCHANGED <<orVars, listVars, dictVars, restVars>>

\* The end of Dict.check_and_return: raise DataError(error=errors) if
\* there are errors, else return collect.
DictReturn ==
  /\ pc = "return"
  /\ outcome' = IF DOMAIN errors # {} THEN Raised(DataErrors(errors))
                ELSE Returned(Convert(collect))
  /\ pc' = "done"
  /\ UNCHANGED <<value, idx, calls, lst, errors, data, collect>>
  /\ UNCHANGED <<orVars, listVars, dictVars, restVars>>

NextDict ==
  DictAllowExtra \/ DictIgnoreExtra \/ DictCall \/ DictKey \/ DictExtras
    \/ DictReturn \/ Release

SpecDict == InitDict /\ [][NextDict]_vars

\* ---------------------------------------------------------------- Mapping
\* The dicts Mapping.check is called with, as the list mapping.items() of
\* their entries in iteration order: the keys of a dict are distinct.
MappingKeys == {"i1", "s1", "sx"}
MappingValues == {"i1", "s1", "sx"}
InputMappings ==
  {its \in SeqUpTo(MappingKeys \X MappingValues, MaxLen) :
     \A i, j \in 1..Len(its) : its[i][1] = its[j][1] => i = j}

\* Mapping.__init__
InitMapping ==
  /\ InitCall
  /\ InitOrOff
  /\ InitListOff
  /\ InitDictOff
  /\ self \in [key : Leaves, value : Leaves]
  /\ InitRestOff

\* Mapping.check(mapping) is entered: checked_mapping = {} (collect),
\* errors = {}. A value without items() (an int) ends the call with
\* AttributeError.
MappingCall ==
  /\ pc = "idle"
  /\ \/ \E its \in InputMappings :
          /\ value' = [kind |-> "mapping", v |-> its]
          /\ pc' = "items"
          /\ outcome' = NoOutcome
     \/ \E v \in {"i1"} :
          /\ value' = [kind |-> "scalar", v |-> v]
          /\ pc' = "done"
          /\ outcome' = Crashed("AttributeError")
  /\ idx' = 0
  /\ calls' = <<>>
  /\ collect' = <<>>
  /\ errors' = <<>>
  /\ UNCHANGED <<lst, data>>
  /\ UNCHANGED <<orVars, listVars, dictVars, restVars>>

\* pair_errors after the two try blocks of one turn of the loop.
PairErrors(rk, rv) ==
  (IF rv.status = "raised" THEN ("value" :> rv.err) ELSE <<>>)
  @@ (IF rk.status = "raised" THEN ("key" :> rk.err) ELSE <<>>)

\* MappingItem not checking the value of an entry whose key failed.
MappingItemKeyFirst ==
  /\ pc = "items"
  /\ idx < Len(value.v)
  /\ LET k == value.v[idx + 1][1]
         v == value.v[idx + 1][2]
         rk == TrafaretCheck(self.key, k)
         rv == TrafaretCheck(self.value, v)
     IN IF rk.status = "raised"
        THEN /\ calls' = Append(calls, <<self.key, k>>)
             /\ errors' = (k :> DataErrors("key" :> rk.err)) @@ errors
             /\ collect' = collect
        ELSE /\ calls' = calls \o << <<self.key, k>>, <<self.value, v>> >>
             /\ IF rv.status = "raised"
                THEN /\ errors' = (k :> DataErrors(PairErrors(rk, rv))) @@ errors
                     /\ collect' = collect
                ELSE /\ collect' = (rk.val :> rv.val) @@ collect
                     /\ errors' = errors
  /\ idx' = idx + 1
  /\ UNCHANGED <<pc, value, outcome, lst, data>>
  /\ UNCHANGED <<orVars, listVars, dictVars, restVars>>

\* One turn of the loop of Mapping.check_and_return: the key of the entry
\* is checked, then its value; the entry goes to errors under its key as it
\* came in, or to checked_mapping under its checked key.
MappingItem ==
  /\ pc = "items"
  /\ idx < Len(value.v)
  /\ LET k == value.v[idx + 1][1]
         v == value.v[idx + 1][2]
         rk == TrafaretCheck(self.key, k)
         rv == TrafaretCheck(self.value, v)
         pair_errors == PairErrors(rk, rv)
     IN /\ calls' = calls \o << <<self.key, k>>, <<self.value, v>> >>
        /\ IF DOMAIN pair_errors # {}
           THEN /\ errors' = (k :> DataErrors(pair_errors)) @@ errors
                /\ collect' = collect
           ELSE /\ collect' = (rk.val :> rv.val) @@ collect
                /\ errors' = errors
  /\ idx' = idx + 1
  /\ UNCHANGED <<pc, value, outcome, lst, data>>
  /\ UNCHANGED <<orVars, listVars, dictVars, restVars>>

\* The end of Mapping.check_and_return: raise DataError(error=errors) if an
\* entry failed, else return checked_mapping.
MappingReturn ==
  /\ pc = "items"
  /\ idx = Len(value.v)
  /\ outcome' = IF DOMAIN errors # {} THEN Raised(DataErrors(errors))
                ELSE Returned(Convert(collect))
  /\ pc' = "done"
  /\ UNCHANGED <<value, idx, calls, lst, errors, data, collect>>
  /\ UNCHANGED <<orVars, listVars, dictVars, restVars>>

NextMapping == MappingCall \/ MappingItem \/ MappingReturn \/ Release

SpecMapping == InitMapping /\ [][NextMapping]_vars

\* ---------------------------------------------------------------- Forward
\* Forward.__init__: no target, the guard of __repr__ down. history is the
\* log of the operations applied to the Forward since.
InitForward ==
  /\ InitCall
  /\ InitOrOff
  /\ InitListOff
  /\ InitDictOff
  /\ self = [trafaret |-> None, _recur_repr |-> FALSE]
  /\ InitRestOff

\* Forward.provide setting the target whether or not there is one.
ProvideRebind(t, op) ==
  /\ pc = "idle"
  /\ Len(history) < MaxOps
  /\ value' = [kind |-> op, v |-> t]
  /\ history' = Append(history, [op |-> op, arg |-> t])
  /\ self' = [self EXCEPT !.trafaret = t]
  /\ outcome' = Returned("none")
  /\ pc' = "done"
  /\ UNCHANGED <<idx, calls, lst, errors, data, collect>>
  /\ UNCHANGED <<orVars, listVars, dictVars, stack, threads>>

\* Forward.provide(t): RuntimeError if a target is set (a trafaret is
\* true), else the target is set and None returned.
Provide(t, op) ==
  /\ pc = "idle"
  /\ Len(history) < MaxOps
  /\ value' = [kind |-> op, v |-> t]
  /\ history' = Append(history, [op |-> op, arg |-> t])
  /\ IF self.trafaret # None
     THEN /\ outcome' = Crashed("RuntimeError")
          /\ self' = self
     ELSE /\ self' = [self EXCEPT !.trafaret = t]
          /\ outcome' = Returned("none")
  /\ pc' = "done"
  /\ UNCHANGED <<idx, calls, lst, errors, data, collect>>
  /\ UNCHANGED <<orVars, listVars, dictVars, stack, threads>>

ForwardProvide == \E t \in Leaves : Provide(t, "provide")

\* Forward.__lshift__: self.provide(trafaret)
ForwardLshift == \E t \in Leaves : Provide(t, "lshift")

\* ForwardCall letting the value through when there is no target.
ForwardCallUnboundPasses ==
  /\ pc = "idle"
  /\ Len(history) < MaxOps
  /\ \E v \in Scalars :
       /\ value' = [kind |-> "scalar", v |-> v]
       /\ history' = Append(history, [op |-> "check", arg |-> v])
       /\ IF self.trafaret = None
          THEN pc' = "done" /\ outcome' = Returned(Convert(v))
          ELSE pc' = "delegate" /\ outcome' = NoOutcome
  /\ idx' = 0
  /\ calls' = <<>>
  /\ UNCHANGED <<lst, errors, data, collect>>
  /\ UNCHANGED <<orVars, listVars, dictVars, self, stack, threads>>

\* Forward.check(value) is entered: with no target check_and_return fails
\* with 'trafaret not set yet'.
ForwardCall ==
  /\ pc = "idle"
  /\ Len(history) < MaxOps
  /\ \E v \in Scalars :
       /\ value' = [kind |-> "scalar", v |-> v]
       /\ history' = Append(history, [op |-> "check", arg |-> v])
       /\ IF self.trafaret = None
          THEN /\ pc' = "done"
               /\ outcome' = Raised(DataError("trafaret not set yet"))
          ELSE /\ pc' = "delegate"
               /\ outcome' = NoOutcome
  /\ idx' = 0
  /\ calls' = <<>>
  /\ UNCHANGED <<lst, errors, data, collect>>
  /\ UNCHANGED <<orVars, listVars, dictVars, self, stack, threads>>

\* return self.trafaret.check(value), through Trafaret.check's _convert.
ForwardDelegate ==
  /\ pc = "delegate"
  /\ LET r == TrafaretCheck(self.trafaret, value.v)
     IN /\ calls' = Append(calls, <<self.trafaret, value.v>>)
        /\ outcome' = IF r.status = "returned" THEN Returned(Convert(r.val))
                      ELSE r
  /\ pc' = "done"
  /\ UNCHANGED <<value, idx, lst, errors, data, collect>>
  /\ UNCHANGED <<orVars, listVars, dictVars, restVars>>

NextForward ==
  ForwardProvide \/ ForwardLshift \/ ForwardCall \/ ForwardDelegate \/ Release

SpecForward == InitForward /\ [][NextForward]_vars

\* ---------------------------------------------------------------- graphs
\* A graph of trafarets is a table of nodes, each naming its children; a
\* nested value is a record: a scalar token with no items, a list with its
\* items, a dict {name: ..., children: ...} with the two values as items.
FwdNode(t) ==
  [type |-> "Forward", trafaret |-> t, trafarets |-> <<>>, names |-> <<>>]
OrNode(ts) ==
  [type |-> "Or", trafaret |-> None, trafarets |-> ts, names |-> <<>>]
ListNode(t) ==
  [type |-> "List", trafaret |-> t, trafarets |-> <<>>, names |-> <<>>]
DictNode(ns, ts) ==
  [type |-> "Dict", trafaret |-> None, trafarets |-> ts, names |-> ns]
LeafNode(l) ==
  [type |-> l, trafaret |-> None, trafarets |-> <<>>, names |-> <<>>]

ScalarValue(v) == [kind |-> v, items |-> <<>>]
ListValue(its) == [kind |-> "list", items |-> its]
DictValue(name, children) == [kind |-> "dict", items |-> <<name, children>>]
IsScalar(v) == v.kind \notin {"list", "dict"}

\* The key of an entry of a nested error map: the index of a List item or
\* of an Or branch, or the name of a Dict field.
Index(i) == [index |-> i, name |-> ""]
Name(n) == [index |-> -1, name |-> n]

\* node = Forward(); node << Dict(name=String, children=List[node])
TreeSchema ==
  ("node" :> FwdNode("dict"))
  @@ ("dict" :> DictNode(<<"name", "children">>, <<"String", "list">>))
  @@ ("list" :> ListNode("node"))
  @@ ("String" :> LeafNode("String"))

\* node = Forward(); node << Or(Int, List[node])
NestedSchema ==
  ("node" :> FwdNode("or"))
  @@ ("or" :> OrNode(<<"Int", "list">>))
  @@ ("list" :> ListNode("node"))
  @@ ("Int" :> LeafNode("Int"))

\* node = Forward(); node << Or(node, Int)
LoopSchema ==
  ("node" :> FwdNode("or"))
  @@ ("or" :> OrNode(<<"node", "Int">>))
  @@ ("Int" :> LeafNode("Int"))

\* The nested values of nesting depth at most d: the scalars 1 and 'x',
\* the lists of no or one item, the dicts with the keys name and children.
RECURSIVE ValuesUpTo(_)
ValuesUpTo(d) ==
  IF d = 0 THEN {ScalarValue(v) : v \in {"i1", "sx"}}
  ELSE LET below == ValuesUpTo(d - 1)
       IN {ScalarValue(v) : v \in {"i1", "sx"}}
          \cup {ListValue(<<>>)}
          \cup {ListValue(<<v>>) : v \in below}
          \cup {DictValue(ScalarValue(n), c) : n \in {"i1", "sx"}, c \in below}

\* repr(v) and str(v)
RECURSIVE Repr(_)
Repr(v) ==
  CASE v.kind = "list" ->
         "[" \o (IF v.items = <<>> THEN "" ELSE Repr(v.items[1])) \o "]"
    [] v.kind = "dict" ->
         "{'name': " \o Repr(v.items[1]) \o ", 'children': "
           \o Repr(v.items[2]) \o "}"
    [] IsStr(v.kind) -> "'" \o Fmt(v.kind) \o "'"
    [] OTHER -> Fmt(v.kind)
Str(v) == IF IsStr(v.kind) THEN Fmt(v.kind) ELSE Repr(v)

\* The check of a leaf on a nested value: a list or a dict is no int and
\* no str.
LeafCheck(l, v) ==
  IF IsScalar(v)
  THEN LET r == TrafaretCheck(l, v.kind)
       IN IF r.status = "returned" THEN Returned(ScalarValue(r.val)) ELSE r
  ELSE IF l = "Int" THEN Raised(DataError("value " \o Str(v) \o " is not int"))
  ELSE Raised(DataError("value is not a string"))

\* The limit of the depth of calls (sys.getrecursionlimit() scaled to the
\* model): deep enough for every input of the model under a schema whose
\* recursion follows the input.
RecursionLimit == 3 * MaxDepth + 4

\* The frame of a call of check of a node on a value: idx children are
\* done, lst holds their values and errors their errors.
Frame(node, val) ==
  [node |-> node, val |-> val, idx |-> 0, lst |-> <<>>, errors |-> <<>>]

InitGraph ==
  /\ InitCall
  /\ InitOrOff
  /\ InitListOff
  /\ InitDictOff
  /\ self \in {TreeSchema, NestedSchema, LoopSchema}
  /\ InitRestOff

\* node.check(value) is called.
GraphCall ==
  /\ pc = "idle"
  /\ \E v \in ValuesUpTo(MaxDepth) :
       /\ value' = [kind |-> "nested", v |-> v]
       /\ stack' = <<Frame("node", v)>>
  /\ pc' = "call"
  /\ outcome' = NoOutcome
  /\ UNCHANGED <<idx, calls, lst, errors, data, collect>>
  /\ UNCHANGED <<orVars, listVars, dictVars, self, history, threads>>

\* The call on top of the stack ends with the result r, which its caller
\* gets (through Trafaret.check's _convert).
Return(r) ==
  /\ stack' = SubSeq(stack, 1, Len(stack) - 1)
  /\ outcome' = IF r.status = "returned" THEN Returned(Convert(r.val)) ELSE r
  /\ pc' = IF Len(stack) = 1 THEN "done" ELSE "return"

\* Call handing the child the caller's whole value in place of the item.
CallSameValue(top, child, val) ==
  IF Len(stack) >= RecursionLimit
  THEN /\ stack' = <<>>
       /\ outcome' = Crashed("RecursionError")
       /\ pc' = "done"
  ELSE /\ stack' = Append([stack EXCEPT ![Len(stack)] = top],
                          Frame(child, top.val))
       /\ outcome' = NoOutcome
       /\ pc' = "call"

\* The call on top of the stack, its frame now being top, calls check of
\* the node child on val: one call deeper, or RecursionError at the limit,
\* which no except clause of the module catches.
Call(top, child, val) ==
  IF Len(stack) >= RecursionLimit
  THEN /\ stack' = <<>>
       /\ outcome' = Crashed("RecursionError")
       /\ pc' = "done"
  ELSE /\ stack' = Append([stack EXCEPT ![Len(stack)] = top],
                          Frame(child, val))
       /\ outcome' = NoOutcome
       /\ pc' = "call"

\* A call of check starts: a leaf checks, Forward and Or hand the value to
\* the target or the first branch, List and Dict test the type of the value
\* and hand its first item to the child.
GraphEnter ==
  /\ pc = "call"
  /\ LET top == stack[Len(stack)]
         n == self[top.node]
         v == top.val
     IN CASE n.type = "Forward" ->
               IF n.trafaret = None
               THEN Return(Raised(DataError("trafaret not set yet")))
               ELSE Call(top, n.trafaret, v)
          [] n.type = "Or" ->
               IF n.trafarets = <<>> THEN Return(Raised(DataErrors(<<>>)))
               ELSE Call(top, n.trafarets[1], v)
          [] n.type = "List" ->
               IF v.kind # "list" THEN Return(Raised(DataError("value is not list")))
               ELSE IF v.items = <<>> THEN Return(Returned(ListValue(<<>>)))
               ELSE Call(top, n.trafaret, v.items[1])
          [] n.type = "Dict" ->
               IF v.kind # "dict"
               THEN Return(Raised(DataError("value '" \o Str(v) \o "' is not dict")))
               ELSE Call(top, n.trafarets[1], v.items[1])
          [] OTHER -> Return(LeafCheck(n.type, v))
  /\ UNCHANGED <<value, idx, calls, lst, errors, data, collect>>
  /\ UNCHANGED <<orVars, listVars, dictVars, self, history, threads>>

\* The frame of a List or Dict call after the result r of the child at idx
\* is stored under the key k.
Stored(top, k, r) ==
  IF r.status = "returned"
  THEN [top EXCEPT !.idx = top.idx + 1, !.lst = Append(top.lst, r.val)]
  ELSE [top EXCEPT !.idx = top.idx + 1, !.errors = (k :> r.err) @@ top.errors]

\* A call gets the result of the check it called: Forward returns it, Or
\* returns a value or tries the next branch, List and Dict store it and go
\* on with the next item, and after the last raise their errors or return.
GraphResume ==
  /\ pc = "return"
  /\ LET top == stack[Len(stack)]
         n == self[top.node]
         v == top.val
     IN CASE n.type = "Forward" -> Return(outcome)
          [] n.type = "Or" ->
               IF outcome.status = "returned" THEN Return(outcome)
               ELSE LET t == [top EXCEPT !.idx = top.idx + 1,
                                         !.errors = Append(top.errors, outcome.err)]
                    IN IF t.idx < Len(n.trafarets)
                       THEN Call(t, n.trafarets[t.idx + 1], v)
                       ELSE Return(Raised(DataErrors(
                              [k \in {Index(i) : i \in DOMAIN Enumerate(t.errors)}
                                 |-> Enumerate(t.errors)[k.index]])))
          [] n.type = "List" ->
               LET t == Stored(top, Index(top.idx), outcome)
               IN IF t.idx < Len(v.items)
                  THEN Call(t, n.trafaret, v.items[t.idx + 1])
                  ELSE IF DOMAIN t.errors # {}
                  THEN Return(Raised(DataErrors(t.errors)))
                  ELSE Return(Returned(ListValue(t.lst)))
          [] OTHER ->
               LET t == Stored(top, Name(n.names[top.idx + 1]), outcome)
               IN IF t.idx < Len(n.trafarets)
                  THEN Call(t, n.trafarets[t.idx + 1], v.items[t.idx + 1])
                  ELSE IF DOMAIN t.errors # {}
                  THEN Return(Raised(DataErrors(t.errors)))
                  ELSE Return(Returned([kind |-> "dict", items |-> t.lst]))
  /\ UNCHANGED <<value, idx, calls, lst, errors, data, collect>>
  /\ UNCHANGED <<orVars, listVars, dictVars, self, history, threads>>

NextGraph == GraphCall \/ GraphEnter \/ GraphResume \/ Release

SpecGraph == InitGraph /\ [][NextGraph]_vars

\* Every call that is entered or resumed takes its step.
SpecGraphFair ==
  SpecGraph /\ WF_vars(GraphEnter) /\ WF_vars(GraphResume)

\* ---------------------------------------------------------------- converters
\* The functions given to append and >>: x * 2 and str as terms over the
\* value they get, ignore returning None; "converter" is the method
\* Trafaret.converter.
Functions == {"double", "str", "ignore"}
Apply(c, v) ==
  CASE c = "converter" -> converter(v)
    [] c = "ignore" -> "none"
    [] OTHER -> c \o "(" \o v \o ")"

\* What check hands to _convert: the value check_and_return returns, or
\* the value itself after check_value; or the DataError they raise.
OwnCheck(t, val) ==
  LET r == CASE t = "Int" -> IntCheckAndReturn(val)
             [] t = "String" -> StringCheckAndReturn(val)
             [] OTHER -> NullCheckValue(val)
  IN IF r.status = "raised" THEN r
     ELSE IF t = "Null" THEN Returned(val)
     ELSE r

\* getattr(self, 'converters', [self.converter])
Converters ==
  IF self.has_converters THEN self.converters ELSE <<"converter">>

\* A leaf trafaret without the attribute converters.
InitConverters ==
  /\ InitCall
  /\ InitOrOff
  /\ InitListOff
  /\ InitDictOff
  /\ self \in [trafaret : Leaves, has_converters : {FALSE},
               converters : {<<>>}]
  /\ InitRestOff

\* Trafaret.append(converter) and Trafaret.__rshift__: the list converters
\* is made, or gets one more at the end.
TrafaretAppend ==
  /\ pc = "idle"
  /\ Len(self.converters) < MaxConverters
  /\ \E c \in Functions :
       self' = [self EXCEPT !.has_converters = TRUE,
                            !.converters = Append(self.converters, c)]
  /\ Forget
  /\ UNCHANGED <<orVars, listVars, dictVars, history, stack, threads>>

\* Trafaret.check(value) is entered: check_value or check_and_return runs,
\* and _convert starts on what it gives (val, in the frame on the stack).
ConvertCall ==
  /\ pc = "idle"
  /\ \E v \in Scalars :
       /\ value' = [kind |-> "scalar", v |-> v]
       /\ LET r == OwnCheck(self.trafaret, v)
          IN IF r.status = "raised"
             THEN /\ pc' = "done"
                  /\ outcome' = r
                  /\ stack' = <<>>
             ELSE /\ pc' = "convert"
                  /\ outcome' = NoOutcome
                  /\ stack' = <<Frame("self", r.val)>>
  /\ idx' = 0
  /\ calls' = <<>>
  /\ UNCHANGED <<lst, errors, data, collect>>
  /\ UNCHANGED <<orVars, listVars, dictVars, self, history, threads>>

\* ConvertStep taking the converters from the last to the first.
ConvertStepReversed ==
  /\ pc = "convert"
  /\ idx < Len(Converters)
  /\ LET c == Converters[Len(Converters) - idx]
         val == stack[1].val
     IN /\ calls' = Append(calls, <<c, val>>)
        /\ stack' = <<[stack[1] EXCEPT !.val = Apply(c, val)]>>
  /\ idx' = idx + 1
  /\ UNCHANGED <<pc, value, outcome, lst, errors, data, collect>>
  /\ UNCHANGED <<orVars, listVars, dictVars, self, history, threads>>

\* One turn of the loop of Trafaret._convert: val = converter(val).
ConvertStep ==
  /\ pc = "convert"
  /\ idx < Len(Converters)
  /\ LET c == Converters[idx + 1]
         val == stack[1].val
     IN /\ calls' = Append(calls, <<c, val>>)
        /\ stack' = <<[stack[1] EXCEPT !.val = Apply(c, val)]>>
  /\ idx' = idx + 1
  /\ UNCHANGED <<pc, value, outcome, lst, errors, data, collect>>
  /\ UNCHANGED <<orVars, listVars, dictVars, self, history, threads>>

\* The end of Trafaret._convert: return val.
ConvertReturn ==
  /\ pc = "convert"
  /\ idx = Len(Converters)
  /\ outcome' = Returned(stack[1].val)
  /\ stack' = <<>>
  /\ pc' = "done"
  /\ UNCHANGED <<value, idx, calls, lst, errors, data, collect>>
  /\ UNCHANGED <<orVars, listVars, dictVars, self, history, threads>>

NextConverters ==
  TrafaretAppend \/ ConvertCall \/ ConvertStep \/ ConvertReturn \/ Release

SpecConverters == InitConverters /\ [][NextConverters]_vars

\* ---------------------------------------------------------------- children
\* A combinator with one child, a trafaret or a plain function, checked on
\* the least input that reaches the child with the value v: Or(child) and
\* Forward bound to child on v, List(child) and Tuple(child) on [v],
\* Dict(foo=child) on {foo: v}, Mapping(child, child) on {v: v}.
Parents == {"Or", "List", "Tuple", "Dict", "Mapping", "Forward"}

InitChild ==
  /\ InitCall
  /\ InitOrOff
  /\ InitListOff
  /\ InitDictOff
  /\ self \in [parent : Parents, child : Leaves \cup Routines]
  /\ InitRestOff

\* The call of a check of the parent on the input made of v ends with the
\* outcome o after the invocations cs.
ChildDone(v, cs, o) ==
  /\ pc = "idle"
  /\ value' = [kind |-> "scalar", v |-> v]
  /\ calls' = cs
  /\ outcome' = o
  /\ pc' = "done"
  /\ UNCHANGED <<idx, lst, errors, data, collect>>
  /\ UNCHANGED <<orVars, listVars, dictVars, restVars>>

\* The invocation log of one child.check(v): nothing was invoked if the
\* child has no check.
Invoked(child, v) ==
  IF Check(child, v).status = "crashed" THEN <<>> ELSE << <<child, v>> >>

\* Or(child).check(v): return child.check(v), a DataError being collected.
ChildOfOr ==
  /\ self.parent = "Or"
  /\ \E v \in Scalars :
       LET r == Check(self.child, v)
       IN ChildDone(v, Invoked(self.child, v),
            IF r.status = "returned" THEN Returned(Convert(r.val))
            ELSE IF r.status = "raised"
            THEN Raised(DataErrors(Enumerate(<<r.err>>)))
            ELSE r)

\* List(child).check([v]): lst.append(self.trafaret.check(item)), a
\* DataError going to errors[index].
ChildOfList ==
  /\ self.parent = "List"
  /\ \E v \in Scalars :
       LET r == Check(self.child, v)
       IN ChildDone(v, Invoked(self.child, v),
            IF r.status = "returned" THEN Returned(Convert(<<r.val>>))
            ELSE IF r.status = "raised" THEN Raised(DataErrors(0 :> r.err))
            ELSE r)

\* Tuple(child).check([v]): result.append(trafaret.check(item)), a
\* DataError going to errors[idx].
ChildOfTuple ==
  /\ self.parent = "Tuple"
  /\ \E v \in Scalars :
       LET r == Check(self.child, v)
       IN ChildDone(v, Invoked(self.child, v),
            IF r.status = "returned" THEN Returned(Convert(<<r.val>>))
            ELSE IF r.status = "raised" THEN Raised(DataErrors(0 :> r.err))
            ELSE r)

\* Dict(foo=child).check({foo: v}): Key.pop yields catch_error(child, v).
ChildOfDict ==
  /\ self.parent = "Dict"
  /\ \E v \in Scalars :
       LET p == KeyPop(Key("foo", Empty, FALSE, None, self.child), "foo" :> v)
           st == StoreYields(p.yields, <<>>, <<>>)
       IN ChildDone(v, p.calls,
            IF DOMAIN st.errors # {} THEN Raised(DataErrors(st.errors))
            ELSE Returned(Convert(st.collect)))

\* Mapping(child, child).check({v: v}): self.key.check(key), then
\* self.value.check(value), each in its own try for DataError.
ChildOfMapping ==
  /\ self.parent = "Mapping"
  /\ \E v \in Scalars :
       LET rk == Check(self.child, v)
           rv == Check(self.child, v)
       IN ChildDone(v, Invoked(self.child, v) \o Invoked(self.child, v),
            IF rk.status = "crashed" THEN rk
            ELSE IF DOMAIN PairErrors(rk, rv) # {}
            THEN Raised(DataErrors(v :> DataErrors(PairErrors(rk, rv))))
            ELSE Returned(Convert(rk.val :> rv.val)))

\* Forward bound to child: return self.trafaret.check(value).
ChildOfForward ==
  /\ self.parent = "Forward"
  /\ \E v \in Scalars :
       LET r == Check(self.child, v)
       IN ChildDone(v, Invoked(self.child, v),
            IF r.status = "returned" THEN Returned(Convert(r.val)) ELSE r)

NextChild ==
  ChildOfOr \/ ChildOfList \/ ChildOfTuple \/ ChildOfDict \/ ChildOfMapping
    \/ ChildOfForward \/ Release

SpecChild == InitChild /\ [][NextChild]_vars

\* ---------------------------------------------------------------- guard
\* The guarded functions: def fn(a), fn(a, b), fn(a, b, c), the last
\* parameters having defaults, guarded with Int for every parameter; fn
\* returns its arguments. self holds argspec.args and argspec.defaults.
ParamNames == <<"a", "b", "c">>

\* guard(**kwargs) makes Dict(**kwargs); wrapper(fn) reads the argspec.
InitGuard ==
  /\ InitCall
  /\ InitOrOff
  /\ InitListOff
  /\ \E n \in 0..Len(ParamNames) :
       /\ self \in [fnargs : {SubSeq(ParamNames, 1, n)},
                    defaults : SeqUpTo({"i1", "i2", "sx"}, n)]
       /\ keys = [i \in 1..n |-> Key(ParamNames[i], Empty, FALSE, None, "Int")]
  /\ extras = <<>>
  /\ allow_any = FALSE
  /\ ignore = <<>>
  /\ ignore_any = FALSE
  /\ InitRestOff

\* reversed(s)
Reversed(s) == [i \in 1..Len(s) |-> s[Len(s) + 1 - i]]

\* dict(zip(fnargs, checkargs)) with the items of kwargs added.
CallArgs(fnargs, checkargs, kwargs) ==
  kwargs @@ [n \in {Zip(fnargs, checkargs)[i][1] :
                      i \in 1..Len(Zip(fnargs, checkargs))}
               |-> LET i == CHOOSE i \in 1..Len(checkargs) : fnargs[i] = n
                   IN checkargs[i]]

\* The loop of decor over zip(reversed(fnargs), argspec.defaults): a name
\* that is not in call_args gets the default it is paired with.
WithDefaults(call_args, fnargs, defaults) ==
  LET pairs == Zip(Reversed(fnargs), defaults)
      named == {pairs[i][1] : i \in 1..Len(pairs)}
  IN [n \in DOMAIN call_args \cup named |->
        IF n \in DOMAIN call_args THEN call_args[n]
        ELSE LET i == CHOOSE i \in 1..Len(pairs) : pairs[i][1] = n
             IN pairs[i][2]]

\* GuardError(error=err.error)
GuardError(err) == [status |-> "GuardError", val |-> NoValue, err |-> err]

\* decor(*args, **kwargs) is called with the first parameters given by
\* position and some of the others by keyword: call_args is built and
\* trafaret.check(call_args) is entered. (fnargs[0] of a function without
\* parameters is an IndexError.)
GuardCall ==
  /\ pc = "idle"
  /\ stack = <<>>
  /\ IF self.fnargs = <<>>
     THEN /\ pc' = "guarded"
          /\ outcome' = Crashed("IndexError")
          /\ value' = [kind |-> "scalar", v |-> "none"]
          /\ UNCHANGED <<data, stack>>
     ELSE \E m \in 0..Len(self.fnargs) :
          \E checkargs \in [1..m -> {"i1", "sx"}] :
          \E given \in SUBSET {self.fnargs[i] : i \in (m + 1)..Len(self.fnargs)} :
            LET kwargs == [n \in given |-> "s1"]
                call_args == WithDefaults(
                               CallArgs(self.fnargs, checkargs, kwargs),
                               self.fnargs, self.defaults)
            IN /\ stack' = <<[args |-> checkargs, kwargs |-> kwargs]>>
               /\ value' = [kind |-> "dict", v |-> call_args]
               /\ data' = call_args
               /\ pc' = "keys"
               /\ outcome' = NoOutcome
  /\ idx' = 0
  /\ calls' = <<>>
  /\ collect' = <<>>
  /\ errors' = <<>>
  /\ history' = <<>>
  /\ UNCHANGED <<lst, self, threads>>
  /\ UNCHANGED <<orVars, listVars, dictVars>>

\* trafaret.check(call_args) is over: its DataError is raised again as
\* GuardError, else fn(**converted) is called (history is the log of the
\* calls of fn) and what it returns is returned.
GuardReturn ==
  /\ pc = "done"
  /\ stack # <<>>
  /\ IF outcome.status = "raised"
     THEN /\ outcome' = GuardError(outcome.err)
          /\ history' = history
     ELSE /\ history' = Append(history, outcome.val)
          /\ outcome' = Returned(outcome.val)
  /\ pc' = "guarded"
  /\ UNCHANGED <<value, idx, calls, lst, errors, data, collect>>
  /\ UNCHANGED <<orVars, listVars, dictVars, self, stack, threads>>

\* The caller has the result of the guarded call.
GuardRelease ==
  /\ pc = "guarded"
  /\ Forget
  /\ history' = <<>>
  /\ stack' = <<>>
  /\ UNCHANGED <<orVars, listVars, dictVars, self, threads>>

NextGuard ==
  GuardCall \/ DictKey \/ DictExtras \/ DictReturn \/ GuardReturn
    \/ GuardRelease

SpecGuard == InitGuard /\ [][NextGuard]_vars

\* ---------------------------------------------------------------- threads
\* Two threads share one graph, a Forward bound to a Dict, and call check
\* (and repr) on it at their own pace. The locals of the call of a thread
\* are in its frame.
Threads == {"t1", "t2"}

IdleFrame ==
  [pc |-> "idle", value |-> [kind |-> "scalar", v |-> "none"], idx |-> 0,
   data |-> <<>>, collect |-> <<>>, errors |-> <<>>, outcome |-> NoOutcome]

\* The dicts the threads call check with.
ThreadInputs ==
  {d \in InputDicts :
     \A n \in DOMAIN d : d[n] \in {"i1", "sx", "i2"} /\ (n = "bar" => d[n] = "sx")}

\* The graph after construction: node = Forward(); node << Dict(...) with
\* its extra-key policy set.
InitThreads ==
  /\ InitCall
  /\ InitOrOff
  /\ InitListOff
  /\ keys \in {<<Key("foo", d, FALSE, t, "Int"),
                 Key("bar", Empty, FALSE, None, "String")>> :
                 d \in {Empty, Literal("i1")}, t \in {None, "baz"}}
  /\ extras = <<>>
  /\ allow_any \in BOOLEAN
  /\ ignore \in {<<>>, <<"baz">>}
  /\ ignore_any = FALSE
  /\ self = [trafaret |-> "Dict", _recur_repr |-> FALSE]
  /\ history = <<>>
  /\ stack = <<>>
  /\ threads = [t \in Threads |-> IdleFrame]

\* The step of thread t that leaves its frame as f and the graph as it is.
ThreadStep(t, f) ==
  /\ threads' = [threads EXCEPT ![t] = f]
  /\ UNCHANGED <<pc, value, idx, calls, outcome, lst, errors, data, collect>>
  /\ UNCHANGED <<orVars, listVars, dictVars, self, history, stack>>

\* Thread t calls node.check(d): Forward.check_and_return hands d to the
\* target, and Dict.check_and_return makes its copy and its two dicts.
ThreadCall(t) ==
  /\ threads[t].pc = "idle"
  /\ self.trafaret # None
  /\ \E d \in ThreadInputs :
       ThreadStep(t, [IdleFrame EXCEPT !.pc = "keys",
                                       !.value = [kind |-> "dict", v |-> d],
                                       !.data = d])

\* ThreadKey keeping the errors of the call in a dict of the Dict itself.
ThreadKeySharedErrors(t) ==
  /\ threads[t].pc = "keys"
  /\ threads[t].idx < Len(keys)
  /\ LET f == threads[t]
         p == KeyPop(keys[f.idx + 1], f.data)
         st == StoreYields(p.yields, f.collect, errors)
     IN /\ threads' = [threads EXCEPT ![t] =
                         [f EXCEPT !.idx = f.idx + 1, !.data = p.data,
                                   !.collect = st.collect,
                                   !.errors = st.errors]]
        /\ errors' = st.errors
  /\ UNCHANGED <<pc, value, idx, calls, outcome, lst, data, collect>>
  /\ UNCHANGED <<orVars, listVars, dictVars, self, history, stack>>

\* One turn of the outer loop of Dict.check_and_return in thread t.
ThreadKey(t) ==
  /\ threads[t].pc = "keys"
  /\ threads[t].idx < Len(keys)
  /\ LET f == threads[t]
         p == KeyPop(keys[f.idx + 1], f.data)
         st == StoreYields(p.yields, f.collect, f.errors)
     IN ThreadStep(t, [f EXCEPT !.idx = f.idx + 1, !.data = p.data,
                                !.collect = st.collect, !.errors = st.errors])

\* The second loop of Dict.check_and_return in thread t.
ThreadExtras(t) ==
  /\ threads[t].pc = "keys"
  /\ threads[t].idx = Len(keys)
  /\ LET f == threads[t]
         captured == {n \in DOMAIN f.data : Classify(n) = "capture"}
         rejected == {n \in DOMAIN f.data : Classify(n) = "reject"}
     IN ThreadStep(t,
          [f EXCEPT !.pc = "return",
                    !.collect = [n \in captured |-> f.data[n]] @@ f.collect,
                    !.errors = [n \in rejected |->
                                  DataError(n \o " is not allowed key")]
                               @@ f.errors])

\* The end of Dict.check_and_return in thread t, returned by Forward.
ThreadReturn(t) ==
  /\ threads[t].pc = "return"
  /\ LET f == threads[t]
     IN ThreadStep(t,
          [f EXCEPT !.pc = "done",
                    !.outcome = IF DOMAIN f.errors # {}
                                THEN Raised(DataErrors(f.errors))
                                ELSE Returned(Convert(f.collect))])

\* The caller in thread t has the result.
ThreadRelease(t) ==
  /\ threads[t].pc = "done"
  /\ ThreadStep(t, IdleFrame)

\* Thread t enters Forward.__repr__ with the guard down: the guard goes up.
\* (With the guard up it returns '<recur>' and nothing changes.)
ReprEnter(t) ==
  /\ threads[t].pc = "idle"
  /\ ~self._recur_repr
  /\ self' = [self EXCEPT !._recur_repr = TRUE]
  /\ threads' = [threads EXCEPT ![t] = [IdleFrame EXCEPT !.pc = "repr"]]
  /\ UNCHANGED <<pc, value, idx, calls, outcome, lst, errors, data, collect>>
  /\ UNCHANGED <<orVars, listVars, dictVars, history, stack>>

\* Thread t leaves Forward.__repr__: the guard goes down.
ReprLeave(t) ==
  /\ threads[t].pc = "repr"
  /\ self' = [self EXCEPT !._recur_repr = FALSE]
  /\ threads' = [threads EXCEPT ![t] = IdleFrame]
  /\ UNCHANGED <<pc, value, idx, calls, outcome, lst, errors, data, collect>>
  /\ UNCHANGED <<orVars, listVars, dictVars, history, stack>>

NextThreads ==
  \E t \in Threads :
    \/ ThreadCall(t)
    \/ ThreadKey(t)
    \/ ThreadExtras(t)
    \/ ThreadReturn(t)
    \/ ThreadRelease(t)
    \/ ReprEnter(t)
    \/ ReprLeave(t)

SpecThreads == InitThreads /\ [][NextThreads]_vars

\* Branch i (0-based) of the Or in branch order, checked on the input alone.
BranchCheck(i) == TrafaretCheck(trafarets[i + 1], value.v)

\* The branches of the Or that were invoked are the first Len(calls) ones,
\* in order, each on the input.
OrCallsInOrder ==
  /\ Len(calls) <= Len(trafarets)
  /\ \A j \in 1..Len(calls) : calls[j] = <<trafarets[j], value.v>>

\* C2: the branches of an Or are attempted strictly in order, and when Bi
\* is the first branch whose check succeeds, Or.check(x) returns exactly
\* Bi.check(x) and no later branch is invoked.
C2_OrFirstSuccess ==
  /\ OrCallsInOrder
  /\ pc = "done" =>
       \A i \in 0..(Len(trafarets) - 1) :
         ( /\ BranchCheck(i).status = "returned"
           /\ \A j \in 0..(i - 1) : BranchCheck(j).status = "raised" )
         => /\ outcome = Returned(BranchCheck(i).val)
            /\ Len(calls) = i + 1

\* An Or of three branches returned the second branch's converted value:
\* the first branch failed and the third was never invoked.
C2_Witness ==
  /\ pc = "done"
  /\ trafarets = <<"Null", "Int", "String">>
  /\ value.v = "s1"
  /\ outcome = Returned("i1")
  /\ calls = << <<"Null", "s1">>, <<"Int", "s1">> >>

\* C3: when all n branches of an Or fail, Or.check raises one error whose
\* map has exactly the keys 0..n-1, key i holding the error of branch i.
C3_OrAllFail ==
  ( /\ pc = "done"
    /\ \A i \in 0..(Len(trafarets) - 1) : BranchCheck(i).status = "raised" )
  => /\ outcome.status = "raised"
     /\ outcome.err.kind = "map"
     /\ DOMAIN outcome.err.map = 0..(Len(trafarets) - 1)
     /\ \A i \in 0..(Len(trafarets) - 1) :
          outcome.err.map[i] = BranchCheck(i).err

\* Or(String, Null) on the int 1 raised {0: 'value is not a string',
\* 1: 'value should be None'}.
C3_Witness ==
  /\ pc = "done"
  /\ trafarets = <<"String", "Null">>
  /\ value.v = "i1"
  /\ outcome.status = "raised"
  /\ DOMAIN outcome.err.map = {0, 1}
  /\ outcome.err.map[0] = DataError("value is not a string")
  /\ outcome.err.map[1] = DataError("value should be None")

\* The input of List.check passes the type and length checks.
ListAdmits ==
  /\ value.kind = "list"
  /\ Len(value.v) >= min_length
  /\ max_length = NoMaxLength \/ Len(value.v) <= max_length

\* The element at index i (0-based) of the input, checked alone.
ItemCheck(i) == TrafaretCheck(trafaret, value.v[i + 1])

\* The indices of the elements of the input that fail the element trafaret.
FailingItems ==
  {i \in 0..(Len(value.v) - 1) : ItemCheck(i).status = "raised"}

\* C4: on an input that passes the type and length checks, List.check
\* invokes the element trafaret on every element in index order, also after
\* a failure; if an element fails it raises an error map whose keys are
\* exactly the indices of the failing elements, else it returns the
\* converted elements in the original order.
C4_ListAllElements ==
  (pc \in {"items", "done"} /\ ListAdmits) =>
    /\ \A j \in 1..Len(calls) : calls[j] = <<trafaret, value.v[j]>>
    /\ pc = "done" =>
         /\ Len(calls) = Len(value.v)
         /\ IF FailingItems # {}
            THEN /\ outcome.status = "raised"
                 /\ outcome.val = NoValue
                 /\ outcome.err.kind = "map"
                 /\ DOMAIN outcome.err.map = FailingItems
                 /\ \A i \in FailingItems :
                      outcome.err.map[i] = ItemCheck(i).err
            ELSE /\ outcome.status = "returned"
                 /\ Len(outcome.val) = Len(value.v)
                 /\ \A i \in 0..(Len(value.v) - 1) :
                      outcome.val[i + 1] = ItemCheck(i).val

\* List(Int) on ['x', 1, 'x'] raised an error map with the keys 0 and 2
\* after invoking Int on all three elements.
C4_Witness ==
  /\ pc = "done"
  /\ ListAdmits
  /\ trafaret = "Int"
  /\ value.v = <<"sx", "i1", "sx">>
  /\ Len(calls) = 3
  /\ outcome.status = "raised"
  /\ DOMAIN outcome.err.map = {0, 2}

\* C5: List.check on a value that is not a list, or is shorter than
\* min_length, or longer than a set max_length, fails with a single message
\* (no index-keyed map) and invokes the element trafaret on no element.
C5_ListFailFast ==
  (pc \in {"items", "done"} /\ ~ListAdmits) =>
    /\ pc = "done"
    /\ outcome.status = "raised"
    /\ outcome.err.kind = "msg"
    /\ calls = <<>>

\* List with max_length = 2 on a list of three valid elements raised a
\* single message without invoking the element trafaret.
C5_Witness ==
  /\ pc = "done"
  /\ value.kind = "list"
  /\ max_length = 2
  /\ min_length = 0
  /\ Len(value.v) = 3
  /\ FailingItems = {}
  /\ outcome = Raised(DataError("list length is greater than 2"))
  /\ calls = <<>>

\* C6: Tuple.check on an input whose length as a tuple is not the number N
\* of position trafarets fails with the single message of the arity
\* mismatch (no index-keyed map) and invokes no position trafaret, whatever
\* the elements are.
C6_TupleArity ==
  ( /\ pc \in {"items", "done"}
    /\ TupleOf(value).ok
    /\ Len(TupleOf(value).items) # Len(trafarets) )
  => /\ pc = "done"
     /\ outcome.status = "raised"
     /\ outcome.err.kind = "msg"
     /\ outcome.err.msg =
          "value must contain exact " \o ToString(Len(trafarets)) \o " items"
     /\ calls = <<>>

\* Tuple(Int, String, Null) on [1, 'x'], whose two items suit the first two
\* positions, raised the arity message without invoking a position trafaret.
C6_Witness ==
  /\ pc = "done"
  /\ trafarets = <<"Int", "String", "Null">>
  /\ value.kind = "list"
  /\ value.v = <<"i1", "sx">>
  /\ outcome = Raised(DataError("value must contain exact 3 items"))
  /\ calls = <<>>

\* The descriptor processed by the turn of the loop that is about to run.
ThisKey == keys[idx + 1]

\* A turn of the outer loop of Dict.check_and_return runs.
KeyTurn == pc = "keys" /\ idx < Len(keys) /\ idx' = idx + 1

\* The source name of descriptor k is in the input dict.
Present(k) == k.name \in DOMAIN value.v

\* The value descriptor k validates: the input's, or the default.
RawOf(k) == IF Present(k) THEN value.v[k.name] ELSE k.default.v

\* The name descriptor k stores under: the rename if set, else the source.
TargetOf(k) == IF k.to_name = None THEN k.name ELSE k.to_name

\* C1: for a Key whose to_name differs from its name, a value (present or
\* defaulted) that fails the field trafaret is recorded in the raised error
\* map under the source name.
C1_ErrorUnderSourceName ==
  (pc = "done" /\ value.kind = "dict") =>
    \A i \in 1..Len(keys) :
      ( /\ keys[i].to_name # None
        /\ keys[i].to_name # keys[i].name
        /\ Present(keys[i]) \/ keys[i].default # Empty
        /\ TrafaretCheck(keys[i].trafaret, RawOf(keys[i])).status = "raised" )
      => /\ outcome.status = "raised"
         /\ keys[i].name \in DOMAIN outcome.err.map
         /\ outcome.err.map[keys[i].name] =
              TrafaretCheck(keys[i].trafaret, RawOf(keys[i])).err

\* C7: the second loop of Dict.check classifies every name left in the
\* working copy (the input's names that are no descriptor's source name):
\* ignored (in ignore, or ignore_any) it adds no output entry and no error;
\* else captured (in extras, or allow_any) the input's value is copied to
\* the output under the same name; else a not-allowed-key error is recorded
\* under the name.
C7_ExtraKeyPolicy ==
  [][(pc = "keys" /\ pc' = "return") =>
       /\ DOMAIN data = DOMAIN value.v \ {keys[i].name : i \in 1..Len(keys)}
       /\ \A n \in DOMAIN data :
            IF ignore_any \/ n \in Range(ignore)
            THEN /\ n \in DOMAIN collect' <=> n \in DOMAIN collect
                 /\ n \in DOMAIN collect => collect'[n] = collect[n]
                 /\ n \in DOMAIN errors' <=> n \in DOMAIN errors
                 /\ n \in DOMAIN errors => errors'[n] = errors[n]
            ELSE IF allow_any \/ n \in Range(extras)
            THEN /\ n \in DOMAIN collect'
                 /\ collect'[n] = value.v[n]
                 /\ n \in DOMAIN errors' <=> n \in DOMAIN errors
                 /\ n \in DOMAIN errors => errors'[n] = errors[n]
            ELSE /\ n \in DOMAIN errors'
                 /\ errors'[n] = DataError(n \o " is not allowed key")
                 /\ n \in DOMAIN collect' <=> n \in DOMAIN collect
                 /\ n \in DOMAIN collect => collect'[n] = collect[n]
       /\ \A n \in Names \ DOMAIN data :
            /\ n \in DOMAIN collect' <=> n \in DOMAIN collect
            /\ n \in DOMAIN collect => collect'[n] = collect[n]
            /\ n \in DOMAIN errors' <=> n \in DOMAIN errors
            /\ n \in DOMAIN errors => errors'[n] = errors[n]
    ]_vars

\* A Dict that ignores baz and also allows it, with no descriptor, was
\* given {foo, bar, baz}: baz was dropped and foo and bar were rejected.
C7_Witness ==
  /\ pc = "done"
  /\ keys = <<>>
  /\ Range(ignore) = {"baz"}
  /\ Range(extras) = {"baz"}
  /\ ~allow_any /\ ~ignore_any
  /\ value.kind = "dict"
  /\ DOMAIN value.v = {"foo", "bar", "baz"}
  /\ outcome.status = "raised"
  /\ DOMAIN outcome.err.map = {"foo", "bar"}
  /\ outcome.err.map["foo"] = DataError("foo is not allowed key")

\* Dict(foo=Int, bar=String).allow_extra('*').ignore_extra('foo') has
\* finished check({foo: 1, bar: 'x', baz: 2}).
FooBarCase ==
  /\ pc = "done"
  /\ keys = <<Key("foo", Empty, FALSE, None, "Int"),
              Key("bar", Empty, FALSE, None, "String")>>
  /\ allow_any /\ ~ignore_any
  /\ extras = <<>>
  /\ ignore = <<"foo">>
  /\ value.kind = "dict"
  /\ value.v = ("foo" :> "i1") @@ ("bar" :> "sx") @@ ("baz" :> "i2")

\* C8 as stated: in that case the check succeeds, foo is dropped from the
\* output and baz is passed through verbatim.
C8_FooDropped ==
  FooBarCase =>
    /\ outcome.status = "returned"
    /\ "foo" \notin DOMAIN outcome.val
    /\ "baz" \in DOMAIN outcome.val
    /\ outcome.val["baz"] = "i2"

\* C8 as amended: in that case the check succeeds, foo stays in the output
\* with its validated value (ignore_extra only drops names no descriptor
\* consumed), bar is in the output and baz is passed through verbatim.
C8_FooKept ==
  FooBarCase =>
    /\ outcome.status = "returned"
    /\ DOMAIN outcome.val = {"foo", "bar", "baz"}
    /\ outcome.val["foo"] = "i1"
    /\ outcome.val["bar"] = "sx"
    /\ outcome.val["baz"] = "i2"

\* The check of C8's case has returned.
C8_Witness == FooBarCase /\ outcome.status = "returned"

\* C9: a turn of the descriptor loop whose field validates stores the
\* converted value under the target name (to_name if set, else name): the
\* present value if the source name is present, else the default (literal,
\* or the callable's result) if one is configured, optional or not; a
\* descriptor that is absent, without default and optional stores nothing
\* and records nothing.
C9_KeyContribution ==
  [][KeyTurn =>
       LET k == ThisKey
           r == TrafaretCheck(k.trafaret, RawOf(k))
       IN /\ (Present(k) /\ r.status = "returned") =>
               /\ data[k.name] = value.v[k.name]
               /\ collect' = (TargetOf(k) :> r.val) @@ collect
               /\ errors' = errors
          /\ (~Present(k) /\ k.default # Empty /\ r.status = "returned") =>
               /\ collect' = (TargetOf(k) :> r.val) @@ collect
               /\ errors' = errors
          /\ (~Present(k) /\ k.default = Empty /\ k.optional) =>
               /\ collect' = collect
               /\ errors' = errors
    ]_vars

\* The Dict of one required Int field foo renamed to baz with the default 1
\* returned {baz: 1} for {}.
C9_Witness ==
  /\ pc = "done"
  /\ keys = <<Key("foo", Literal("i1"), FALSE, "baz", "Int")>>
  /\ value.kind = "dict"
  /\ value.v = <<>>
  /\ outcome = Returned("baz" :> "i1")

\* C10: a descriptor whose source name is absent, that has no default and
\* is not optional, records the error 'is required' under its source name
\* and stores nothing, and the check then fails; an optional one records
\* no error.
C10_RequiredField ==
  /\ [][KeyTurn =>
          LET k == ThisKey
          IN /\ (~Present(k) /\ k.default = Empty /\ ~k.optional) =>
                  /\ errors' = (k.name :> DataError("is required")) @@ errors
                  /\ collect' = collect
             /\ (~Present(k) /\ k.default = Empty /\ k.optional) =>
                  errors' = errors
       ]_vars
  /\ [](  (pc = "done" /\ value.kind = "dict") =>
            \A i \in 1..Len(keys) :
              ( /\ ~Present(keys[i])
                /\ keys[i].default = Empty
                /\ ~keys[i].optional )
              => /\ outcome.status = "raised"
                 /\ keys[i].name \in DOMAIN outcome.err.map )

\* Dict(foo=Int, bar=String) raised {bar: 'is required'} for {foo: 1}.
C10_Witness ==
  /\ pc = "done"
  /\ keys = <<Key("foo", Empty, FALSE, None, "Int"),
              Key("bar", Empty, FALSE, None, "String")>>
  /\ value.kind = "dict"
  /\ value.v = ("foo" :> "i1")
  /\ outcome = Raised(DataErrors("bar" :> DataError("is required")))

\* The descriptor k validates a value: its source name is in the input, or
\* it has a default.
Validated(k) == Present(k) \/ k.default # Empty

\* The descriptor k has nothing to validate and is required.
Missing(k) == ~Present(k) /\ k.default = Empty /\ ~k.optional

\* The descriptor k validates a value and the value fails its trafaret.
FieldFailed(k) ==
  Validated(k) /\ TrafaretCheck(k.trafaret, RawOf(k)).status = "raised"

\* The names of the input that are no descriptor's source name and that the
\* extra-key policy neither ignores nor allows.
NotAllowed ==
  {n \in DOMAIN value.v \ {keys[i].name : i \in 1..Len(keys)} :
     /\ ~(ignore_any \/ n \in Range(ignore))
     /\ ~(allow_any \/ n \in Range(extras))}

\* The errors a finished Dict.check has to report under the name n: those
\* of the failing fields stored under n, of the missing fields named n, and
\* of n as a key that is not allowed.
ErrorsFor(n) ==
  {TrafaretCheck(keys[i].trafaret, RawOf(keys[i])).err :
     i \in {j \in 1..Len(keys) :
              FieldFailed(keys[j]) /\ TargetOf(keys[j]) = n}}
  \cup {DataError("is required") :
          i \in {j \in 1..Len(keys) : Missing(keys[j]) /\ keys[j].name = n}}
  \cup {DataError(n \o " is not allowed key") : x \in {n} \cap NotAllowed}

\* The invocations of the field trafarets, descriptor by descriptor in
\* declaration order.
FieldCalls ==
  LET ks == SelectSeq(keys, Validated)
  IN [j \in 1..Len(ks) |-> <<ks[j].trafaret, RawOf(ks[j])>>]

EntryKey(j) == TrafaretCheck(self.key, value.v[j][1])
EntryValue(j) == TrafaretCheck(self.value, value.v[j][2])

\* The entries of the input of which a side fails.
FailingEntries ==
  {j \in 1..Len(value.v) :
     EntryKey(j).status = "raised" \/ EntryValue(j).status = "raised"}

\* C12: Mapping.check invokes, for every entry, the key trafaret and then
\* the value trafaret, also when the key failed. If an entry has a failing
\* side the check raises a map that has, under the key as it came in of
\* exactly each such entry, a map with 'key' iff the key failed and 'value'
\* iff the value failed, holding their errors. Else it returns the checked
\* values under the checked keys (the later entry winning where two checked
\* keys are equal).
C12_MappingEntries ==
  (pc = "done" /\ value.kind = "mapping") =>
    /\ Len(calls) = 2 * Len(value.v)
    /\ \A j \in 1..Len(value.v) :
         /\ calls[2 * j - 1] = <<self.key, value.v[j][1]>>
         /\ calls[2 * j] = <<self.value, value.v[j][2]>>
    /\ IF FailingEntries # {}
       THEN /\ outcome.status = "raised"
            /\ outcome.val = NoValue
            /\ outcome.err.kind = "map"
            /\ DOMAIN outcome.err.map = {value.v[j][1] : j \in FailingEntries}
            /\ \A j \in FailingEntries :
                 LET e == outcome.err.map[value.v[j][1]]
                 IN /\ e.kind = "map"
                    /\ "key" \in DOMAIN e.map <=> EntryKey(j).status = "raised"
                    /\ "value" \in DOMAIN e.map
                         <=> EntryValue(j).status = "raised"
                    /\ DOMAIN e.map \subseteq {"key", "value"}
                    /\ "key" \in DOMAIN e.map => e.map["key"] = EntryKey(j).err
                    /\ "value" \in DOMAIN e.map
                         => e.map["value"] = EntryValue(j).err
       ELSE /\ outcome.status = "returned"
            /\ DOMAIN outcome.val = {EntryKey(j).val : j \in 1..Len(value.v)}
            /\ \A j \in 1..Len(value.v) :
                 (\A i \in (j + 1)..Len(value.v) :
                    EntryKey(i).val # EntryKey(j).val)
                 => outcome.val[EntryKey(j).val] = EntryValue(j).val

\* Mapping(String, Int) on {'x': 1, 1: 'x'} raised {1: {'key': 'value is
\* not a string', 'value': "value x can't be converted to int"}} after
\* checking both sides of both entries.
C12_Witness ==
  /\ pc = "done"
  /\ value.kind = "mapping"
  /\ self = [key |-> "String", value |-> "Int"]
  /\ value.v = << <<"sx", "i1">>, <<"i1", "sx">> >>
  /\ Len(calls) = 4
  /\ outcome =
       Raised(DataErrors(
         "i1" :> DataErrors(
           ("key" :> DataError("value is not a string"))
           @@ ("value" :> DataError("value x can't be converted to int")))))

\* The binds (provide or <<) among the operations applied so far.
IsBind(h) == h.op \in {"provide", "lshift"}
Binds == SelectSeq(history, IsBind)

\* A bind has just been carried out.
BindStep == pc = "idle" /\ pc' = "done" /\ value'.kind \in {"provide", "lshift"}

\* C13: Forward is single-assignment: in every sequence of binds and
\* checks the first bind sets the target, every later bind raises the
\* configuration error (RuntimeError, no DataError) at the bind, a check
\* never raises it, and a target once set is never changed: the target is
\* always the first trafaret bound.
C13_ForwardSingleAssignment ==
  /\ [][ /\ self.trafaret # None => self' = self
         /\ BindStep =>
              IF Binds = <<>>
              THEN /\ self'.trafaret = value'.v
                   /\ outcome' = Returned("none")
              ELSE /\ outcome' = Crashed("RuntimeError")
                   /\ self' = self
         /\ (pc' = "done" /\ value'.kind = "scalar") =>
              outcome'.status # "crashed"
       ]_vars
  /\ [](self.trafaret = IF Binds = <<>> THEN None ELSE Binds[1].arg)

\* A Forward was bound to Int, checked, and then the bind of String raised
\* RuntimeError and left Int as the target.
C13_Witness ==
  /\ pc = "done"
  /\ history = <<[op |-> "provide", arg |-> "Int"],
                 [op |-> "check", arg |-> "i1"],
                 [op |-> "lshift", arg |-> "String"]>>
  /\ outcome = Crashed("RuntimeError")
  /\ self.trafaret = "Int"

\* C14: Forward.check with no target fails at once with 'trafaret not set
\* yet' and invokes no trafaret; with a target it invokes the target once
\* on the value and returns what the target's check returns, or fails with
\* the target's error.
C14_ForwardCheck ==
  (pc = "done" /\ value.kind = "scalar") =>
    IF Binds = <<>>
    THEN /\ outcome = Raised(DataError("trafaret not set yet"))
         /\ calls = <<>>
    ELSE /\ calls = << <<Binds[1].arg, value.v>> >>
         /\ outcome = TrafaretCheck(Binds[1].arg, value.v)

\* A Forward failed the check of 'x' while unbound, was bound to Int, and
\* then returned the int 1 for '1' as Int does.
C14_Witness ==
  /\ pc = "done"
  /\ history = <<[op |-> "check", arg |-> "sx"],
                 [op |-> "provide", arg |-> "Int"],
                 [op |-> "check", arg |-> "s1"]>>
  /\ calls = << <<"Int", "s1">> >>
  /\ outcome = Returned("i1")

\* The nesting depth of a nested value.
RECURSIVE Depth(_)
Depth(v) ==
  IF IsScalar(v) \/ v.items = <<>> THEN (IF IsScalar(v) THEN 0 ELSE 1)
  ELSE 1 + (IF Len(v.items) = 1 \/ Depth(v.items[1]) >= Depth(v.items[2])
            THEN Depth(v.items[1]) ELSE Depth(v.items[2]))

\* The nodes a node hands its own, whole value to: the target of a
\* Forward, the branches of an Or.
SameValue(g, n) ==
  IF g[n].type = "Forward" THEN {g[n].trafaret} \ {None}
  ELSE IF g[n].type = "Or" THEN Range(g[n].trafarets)
  ELSE {}

\* The nodes that get the value of the node n whole, in at most k steps.
RECURSIVE SameValueWithin(_, _, _)
SameValueWithin(g, n, k) ==
  IF k = 0 THEN {}
  ELSE SameValue(g, n)
       \cup UNION {SameValueWithin(g, c, k - 1) : c \in SameValue(g, n)}

\* Every cycle of the graph passes through a position that hands the child
\* an item of the value: no node gets its own value back.
Descends(g) ==
  \A n \in DOMAIN g : n \notin SameValueWithin(g, n, Cardinality(DOMAIN g))

\* The calls a check may be deep on the input v when each level of nesting
\* costs at most three calls (a Forward, an Or or Dict, a List).
StackBound(v) == 3 * (Depth(v) + 1)

\* {name: 'x', children: [{name: 'x', children: []}]}
NestedOnce ==
  DictValue(ScalarValue("sx"),
            ListValue(<<DictValue(ScalarValue("sx"), ListValue(<<>>))>>))

\* {name: 'x', children: [1]}
IntChild == DictValue(ScalarValue("sx"), ListValue(<<ScalarValue("i1")>>))

\* C15 as stated: in every fully bound graph whose cycles pass through
\* Forward nodes, on every input, the depth of the calls of check is bounded
\* by the nesting depth of the input and the check ends without running
\* into the recursion limit.
C15_DepthBoundedByInput ==
  value.kind = "nested" =>
    /\ Len(stack) <= StackBound(value.v)
    /\ outcome.status # "crashed"

\* C15 as amended: in every fully bound graph whose every cycle passes
\* through a position that hands the child an item of the value (a List
\* element, a Dict field of the input), on every input, the depth of the
\* calls of check is bounded by the nesting depth of the input, the check
\* never runs into the recursion limit, and it ends; the schema {name:
\* String, children: List[self]} accepts {name, children: [{name, children:
\* []}]} and rejects {name, children: [1]} with {children: {0: "value '1' is
\* not dict"}}.
C15_DescendingDepthBounded ==
  /\ []( (value.kind = "nested" /\ Descends(self)) =>
           /\ Len(stack) <= StackBound(value.v)
           /\ outcome.status # "crashed" )
  /\ []( (pc = "done" /\ value.kind = "nested" /\ self = TreeSchema) =>
           /\ value.v = NestedOnce => outcome = Returned(NestedOnce)
           /\ value.v = IntChild =>
                outcome =
                  Raised(DataErrors(
                    Name("children") :> DataErrors(
                      Index(0) :> DataError("value '1' is not dict")))) )
  /\ []( (pc \in {"call", "return"} /\ Descends(self)) => <>(pc = "done") )

\* The recursive schema has accepted the dict nested once, of nesting depth
\* four.
C15_Witness ==
  /\ pc = "done"
  /\ value.kind = "nested"
  /\ self = TreeSchema
  /\ Descends(self)
  /\ value.v = NestedOnce
  /\ Depth(value.v) = 4
  /\ outcome = Returned(NestedOnce)

\* The output of the first j of the converters cs on the value v, each
\* getting what the one before it returned.
RECURSIVE Pipeline(_, _, _)
Pipeline(cs, j, v) ==
  IF j = 0 THEN v ELSE Apply(cs[j], Pipeline(cs, j - 1, v))

\* C16: for a trafaret with the converters c1..ck registered by append or
\* >> in that order: if its own check fails no converter is invoked and the
\* error is raised; if it succeeds with r, each converter is invoked exactly
\* once, in the order of registration, on the output of the one before it
\* (c1 on r), and check returns ck(...c2(c1(r))...).
C16_ConvertersInOrder ==
  (pc = "done" /\ value.kind = "scalar" /\ self.has_converters) =>
    LET r == OwnCheck(self.trafaret, value.v)
        cs == self.converters
    IN IF r.status = "raised"
       THEN /\ calls = <<>>
            /\ outcome = r
       ELSE /\ Len(calls) = Len(cs)
            /\ \A j \in 1..Len(cs) :
                 calls[j] = <<cs[j], Pipeline(cs, j - 1, r.val)>>
            /\ outcome = Returned(Pipeline(cs, Len(cs), r.val))

\* (Int() >> double >> str).check('1') returned str(double(1)) after
\* invoking double on the int 1 and then str on its result.
C16_Witness ==
  /\ pc = "done"
  /\ self = [trafaret |-> "Int", has_converters |-> TRUE,
             converters |-> <<"double", "str">>]
  /\ value.v = "s1"
  /\ calls = << <<"double", "i1">>, <<"str", "double(i1)">> >>
  /\ outcome = Returned("str(double(i1))")

\* C17: a plain unary function is accepted as the child of Or, List, Tuple,
\* Dict, Mapping and Forward: the check of the parent invokes it on the
\* child value, fails with a validation error when it raises one, and
\* returns (with its return value as the converted value) when it returns.
C17_FunctionChild ==
  (pc = "done" /\ self.child \in Routines) =>
    /\ Len(calls) >= 1
    /\ \A j \in 1..Len(calls) : calls[j] = <<self.child, value.v>>
    /\ outcome.status = RoutineCall(self.child, value.v).status

\* The guarded call is over.
GuardDone == pc = "guarded" /\ stack # <<>>

\* The parameters that have a default, with the default each declares: the
\* defaults belong to the last parameters, in order.
Defaulted ==
  {self.fnargs[i] :
     i \in (Len(self.fnargs) - Len(self.defaults) + 1)..Len(self.fnargs)}
DeclaredDefault(n) ==
  LET i == CHOOSE i \in 1..Len(self.fnargs) : self.fnargs[i] = n
  IN self.defaults[i - (Len(self.fnargs) - Len(self.defaults))]

\* The defaulted parameters the call gave neither by position nor by
\* keyword.
Omitted ==
  Defaulted \ ({self.fnargs[i] : i \in 1..Len(stack[1].args)}
               \cup DOMAIN stack[1].kwargs)

\* C18: a guarded function called with some of its defaulted parameters
\* omitted has every omitted parameter validated, and passed to the
\* function, with the default that parameter declares, whatever the number
\* of defaulted parameters; if the validation fails GuardError is raised
\* with the error map of the check and the function is not called.
C18_GuardDefaults ==
  GuardDone =>
    /\ \A n \in Omitted :
         /\ n \in DOMAIN value.v
         /\ value.v[n] = DeclaredDefault(n)
         /\ history # <<>> =>
              history[1][n] = TrafaretCheck("Int", DeclaredDefault(n)).val
    /\ IF DOMAIN errors # {}
       THEN /\ outcome = GuardError(DataErrors(errors))
            /\ history = <<>>
       ELSE /\ outcome.status = "returned"
            /\ history = <<collect>>

\* The descriptors from the i-th on, run one after the other on the working
\* copy d with nothing in between.
RECURSIVE KeysAlone(_, _, _, _)
KeysAlone(i, d, c, e) ==
  IF i > Len(keys) THEN [data |-> d, collect |-> c, errors |-> e]
  ELSE LET p == KeyPop(keys[i], d)
           st == StoreYields(p.yields, c, e)
       IN KeysAlone(i + 1, p.data, st.collect, st.errors)

\* The outcome of node.check(d) run alone on the graph.
CheckAlone(d) ==
  LET k == KeysAlone(1, d, <<>>, <<>>)
      c == [n \in {x \in DOMAIN k.data : Classify(x) = "capture"}
              |-> k.data[n]] @@ k.collect
      e == [n \in {x \in DOMAIN k.data : Classify(x) = "reject"}
              |-> DataError(n \o " is not allowed key")] @@ k.errors
  IN IF DOMAIN e # {} THEN Raised(DataErrors(e))
     ELSE Returned(Convert(c))

\* The fields of the nodes of the graph.
GraphFields ==
  <<keys, extras, allow_any, ignore, ignore_any, self.trafaret,
    trafarets, trafaret, min_length, max_length>>

\* Thread t takes a step of a call of check.
CheckStep(t) ==
  /\ threads[t].pc \in {"idle", "keys", "return"}
  /\ threads'[t] # threads[t]
  /\ threads'[t].pc \in {"keys", "return", "done"}

\* C19: concurrent calls of check on one shared, fully bound graph do not
\* interfere: a step of check writes no field of a node (the descriptors
\* and the extra-key policy of the Dict, the target and the repr guard of
\* the Forward), and under every interleaving, also with calls of repr, the
\* outcome of each call is the outcome of that call run alone.
C19_ConcurrentChecks ==
  /\ [][\A t \in Threads :
          CheckStep(t) => (GraphFields' = GraphFields /\ self' = self)]_vars
  /\ [](\A t \in Threads :
          threads[t].pc = "done" =>
            threads[t].outcome = CheckAlone(threads[t].value.v))

\* Both threads have finished a check on the shared Dict, one returning
\* and one raising, each with the outcome of its call alone.
C19_Witness ==
  /\ threads["t1"].pc = "done"
  /\ threads["t2"].pc = "done"
  /\ threads["t1"].outcome.status = "returned"
  /\ threads["t2"].outcome.status = "raised"
  /\ threads["t1"].outcome = CheckAlone(threads["t1"].value.v)
  /\ threads["t2"].outcome = CheckAlone(threads["t2"].value.v)

\* C20: Dict.check works on a copy of its input: from the entry of the call
\* to its end no step changes the dict of the caller, the working copy
\* starts equal to it, and names are popped from the working copy only, so
\* the input is the same after the call, returned or raised.
C20_InputUnchanged ==
  /\ [][(pc \in {"keys", "return"}) => (value' = value)]_vars
  /\ [](pc = "keys" /\ idx = 0 => data = value.v)
  /\ [](pc \in {"keys", "return", "done"} /\ value.kind = "dict" =>
          DOMAIN data \subseteq DOMAIN value.v)

\* A call that raised after its descriptors popped names from the working
\* copy: the dict of the caller still has them.
C20_Witness ==
  /\ pc = "done"
  /\ value.kind = "dict"
  /\ outcome.status = "raised"
  /\ calls # <<>>
  /\ DOMAIN data # DOMAIN value.v
  /\ \E n \in DOMAIN value.v : n \notin DOMAIN data

\* The invocations of the callable default of the descriptor named n logged
\* in this call.
InvocationsOf(n) == SelectSeq(history, LAMBDA h : h.name = n)

\* The outer loop of Dict.check_and_return takes its turn with descriptor k.
TurnOf(k) ==
  /\ pc = "keys"
  /\ idx < Len(keys)
  /\ idx' = idx + 1
  /\ keys[idx + 1] = k

\* C21: in Dict.check the callable default of a Key is invoked exactly once
\* per check for that descriptor, also when the source name is in the
\* input; then what the callable returned is discarded, and the value
\* present is the one validated and stored under the reporting name.
C21_DefaultInvokedOnce ==
  /\ [][\A k \in {keys[i] : i \in 1..Len(keys)} :
          (TurnOf(k) /\ k.default.kind = "callable") =>
            /\ history' = Append(history, [name |-> k.name,
                                           result |-> k.default.v])
            /\ (k.name \in DOMAIN value.v =>
                  LET r == CatchError(k.trafaret, value.v[k.name])
                  IN /\ calls' = Append(calls, <<k.trafaret, value.v[k.name]>>)
                     /\ k.name \notin DOMAIN data'
                     /\ IF r.status = "raised"
                        THEN /\ GetName(k) \in DOMAIN errors'
                             /\ errors'[GetName(k)] = r.err
                        ELSE /\ GetName(k) \in DOMAIN collect'
                             /\ collect'[GetName(k)] = r.val)]_vars
  /\ [](pc \in {"return", "done"} /\ value.kind = "dict" =>
          \A i \in 1..Len(keys) :
            Len(InvocationsOf(keys[i].name)) =
              IF keys[i].default.kind = "callable" THEN 1 ELSE 0)

\* A finished check of a dict that has foo, by a Dict whose descriptor of
\* foo has a callable default returning a value Int rejects: the callable
\* was invoked once, and the value present was validated and returned.
C21_Witness ==
  /\ pc = "done"
  /\ value.kind = "dict"
  /\ Len(keys) > 0
  /\ keys[1].default = Callable("sx")
  /\ "foo" \in DOMAIN value.v
  /\ value.v["foo"] = "i1"
  /\ history = << [name |-> "foo", result |-> "sx"] >>
  /\ calls # <<>>
  /\ calls[1] = <<"Int", "i1">>
  /\ outcome.status \in {"returned", "raised"}
  /\ "foo" \notin DOMAIN errors

====
